---- MODULE Spec2Model ----
(***************************************************************************)
(* A model of the incremental MessageIO readers and generators of          *)
(* ext/common/MessageReadersWriters.h: Uint16Message, Uint32Message,       *)
(* ArrayMessage and ScalarMessage, driven by a caller that feeds bytes,    *)
(* resets and configures them (Spec), and by a receiver that runs the      *)
(* documented read loop on a connection a peer writes messages to          *)
(* (SpecWire); of the generate() functions called on views of any size     *)
(* (SpecGen); and of the dispatcher of ext/common/MultiLibeio.cpp with its *)
(* dispatch thread, the engine's workers and the reactor (SpecEio).        *)
(***************************************************************************)
EXTENDS Integers, Sequences, FiniteSets, TLC

VARIABLES
    rd,        \* the message object (one of the four classes)
    offered,   \* history: every byte passed to feed() since construction/reset()
    total,     \* history: sum of feed() return values since construction/reset()
    last,      \* history: how the last feed() call went (see Feed)
    body,      \* history: the loop of feed() has been in READING_BODY since reset()
    wire,      \* the connection: bytes written by the peer, not yet received
    sent,      \* history: the bytes of every message the peer wrote, in order
    made,      \* history: how each message was made and from what items or payload
    recvBuf,   \* the receiver's buffer: the bytes of the last recv()
    bufConsumed, \* the receiver's count of bytes of recvBuf fed to and accepted by rd
    delivered, \* history: every value() the receiver took, in order
    shouldPoll, \* MultiLibeio.cpp: static bool shouldPoll
    quit,      \* MultiLibeio.cpp: static bool quit
    thr,       \* MultiLibeio.cpp: static oxt::thread *thr ("NULL" or "thread")
    dpc,       \* where the dispatch thread is in threadMain()
    signalled, \* cond has been notified since the dispatch thread began to wait
    spc,       \* where the caller of shutdown() is
    reqs,      \* every submission made: its kind, its context and what happened to it
    resQueue,  \* the engine's queue of finished requests, not yet drained
    loopQueue, \* the reactor's queue of callbacks handed to runAsync(), not yet run
    owed,      \* history: the wake hook has fired and no poll step has followed yet
    asked,     \* history: the wake hook has been called since the dispatch thread last began a poll
    cycles,    \* history: number of init() calls
    syncher,   \* MultiLibeio.cpp: static boost::mutex syncher: "free" or the thread holding it
    ops,       \* the read/write requests made where pread/pwrite are not threadsafe
    ioResult,  \* req->result of each of them: <<>> until it is assigned
    writev,    \* passenger_native_support.c: one call of f_generic_writev and the descriptor
    store,     \* the memory behind ScalarMessage's string buffer
    idle,      \* MultiLibeio.cpp: where a caller of waitUntilIdle() is and what it has read
    call,      \* MessageReadersWriters.h: a feed() call in its loop: data, size, consumed
    dt,        \* passenger_native_support.c: a DeadlineTimer, its thread and its user
    preadWriteLock, \* MultiLibeio.cpp: boost::mutex preadWriteLock: <<>> when free, or the worker holding it
    gen        \* the last call of a generate(): its arguments and what it left

vars == <<rd, offered, total, last, body, wire, sent, made, recvBuf, bufConsumed, delivered,
          shouldPoll, quit, thr, dpc, signalled, spc, reqs, resQueue, loopQueue, owed, asked,
          cycles, syncher, gen, ops, ioResult, preadWriteLock,
          writev, dt, store, idle, call>>

apiVars == <<rd, offered, total, last, body>>

wireVars == <<wire, sent, made, recvBuf, bufConsumed, delivered>>

eioVars ==
    <<shouldPoll, quit, thr, dpc, signalled, spc, reqs, resQueue, loopQueue, owed, asked, cycles,
      syncher>>

genVars == <<gen>>

lockVars == <<ops, ioResult, preadWriteLock>>

writevVars == <<writev>>

timerVars == <<dt>>

storeVars == <<store>>

idleVars == <<idle>>

loopVars == <<call>>

\* The variables of the components modelled after the dispatcher, and
\* those besides each of them.
restVars == <<lockVars, writevVars, timerVars, storeVars, idleVars, loopVars>>

besidesLock == <<writevVars, timerVars, storeVars, idleVars, loopVars>>

besidesWritev == <<lockVars, timerVars, storeVars, idleVars, loopVars>>

besidesTimer == <<lockVars, writevVars, storeVars, idleVars, loopVars>>

besidesStore == <<lockVars, writevVars, timerVars, idleVars, loopVars>>

besidesIdle == <<lockVars, writevVars, timerVars, storeVars, loopVars>>

besidesLoop == <<lockVars, writevVars, timerVars, storeVars, idleVars>>

(***************************************************************************)
(* Bounds of the model.                                                    *)
(***************************************************************************)
\* Bytes are drawn from 0..MaxByte; 0 is the NUL separator of array bodies.
MaxByte == 1
\* A caller passes at most HeaderWidth + MaxTail bytes to one object between
\* two resets.
MaxTail == 2
\* One feed() call is passed at most MaxChunk bytes.
MaxChunk == 3
\* setMaxSize() is called with 0..MaxCeiling.
MaxCeiling == 1
\* The peer writes messages on a connection while their number plus the
\* number of their body bytes is at most MaxLoad;
MaxLoad == 4
\* a scalar payload is handed to generate() in at most MaxFrags fragments.
MaxFrags == 2
\* The reactor makes at most MaxReqs submissions to the dispatcher,
MaxReqs == 2
\* and init() is called at most MaxCycles times.
MaxCycles == 2
\* ArrayMessage::generate is called with at most MaxItems items,
MaxItems == 2
\* and an output array has at most MaxSpare slots more than are written.
MaxSpare == 1

Byte == 0..MaxByte

(***************************************************************************)
(* Program constants.                                                      *)
(***************************************************************************)
SizeofUint16 == 2
SizeofUint32 == 4
\* 0xFFFF, the largest array body generate() accepts
ArrayMaxBody == 65535
\* 16 bits: 0xFFFFFFFF, the largest scalar payload generate() accepts, is
\* 65536 * 65535 + 65535
HalfWord == 65536

(***************************************************************************)
(* Sequence helpers (pointer arithmetic on the caller's data / std::string)*)
(***************************************************************************)
Min(a, b) == IF a < b THEN a ELSE b

Take(s, n) == SubSeq(s, 1, Min(n, Len(s)))

Drop(s, n) == SubSeq(s, n + 1, Len(s))

Reverse(s) == [i \in 1..Len(s) |-> s[Len(s) + 1 - i]]

RECURSIVE SeqsOfLen(_, _)
SeqsOfLen(S, n) ==
    IF n = 0 THEN {<<>>}
    ELSE {Append(s, x) : s \in SeqsOfLen(S, n - 1), x \in S}

(***************************************************************************)
(* Uint16Message / Uint32Message.  `val` is kept as the object's memory    *)
(* bytes (lowest address first) because feed() fills it with memcpy at a   *)
(* byte offset; the host is little-endian, so the integer held by the      *)
(* memory is its little-endian reading and ntohs/ntohl/htons/htonl reverse *)
(* the bytes.                                                              *)
(***************************************************************************)
RECURSIVE HostLoad(_)
HostLoad(mem) ==
    IF mem = <<>> THEN 0 ELSE mem[1] + 256 * HostLoad(Tail(mem))

RECURSIVE HostStore(_, _)
HostStore(v, w) ==
    IF w = 0 THEN <<>> ELSE <<v % 256>> \o HostStore(v \div 256, w - 1)

NetToHost(mem) == Reverse(mem)

HostToNetNoSwap(mem) == mem

HostToNet(mem) == Reverse(mem)

\* The constructor sets consumed only; val is never read before every byte of
\* it has been written by feed(), so its initial bytes are immaterial.
IntNew(w) == [val |-> [i \in 1..w |-> 0], consumed |-> 0]

IntReset(hr) == [hr EXCEPT !.consumed = 0]

IntDone(w, hr) == hr.consumed = w

IntValue(hr) == HostLoad(hr.val)

\* locallyConsumed = size, without the std::min.
IntLocallyConsumedAll(w, hr, size) == size

IntLocallyConsumed(w, hr, size) == Min(size, w - hr.consumed)

\* The conversion without the test locallyConsumed > 0.
IntConvertWhenDone(w, lc, consumed) == consumed = w

IntConvert(w, lc, consumed) == lc > 0 /\ consumed = w

\* memcpy with the destination &val instead of &val + consumed.
IntMemcpyAtStart(w, hr, data, lc) ==
    [i \in 1..w |-> IF i <= lc THEN data[i] ELSE hr.val[i]]

\* memcpy((char *) &val + consumed, data, locallyConsumed)
IntMemcpy(w, hr, data, lc) ==
    [i \in 1..w |-> IF i > hr.consumed /\ i <= hr.consumed + lc
                    THEN data[i - hr.consumed] ELSE hr.val[i]]

IntStore(w, mem, lc, c) ==
    [hr |-> [val |-> IF IntConvert(w, lc, c) THEN NetToHost(mem) ELSE mem,
             consumed |-> c],
     n  |-> lc]

IntFeedN(w, hr, data, lc) ==
    IntStore(w, IntMemcpy(w, hr, data, lc), lc, hr.consumed + lc)

IntFeed(w, hr, data) == IntFeedN(w, hr, data, IntLocallyConsumed(w, hr, Len(data)))


(***************************************************************************)
(* ArrayMessage.  result is the vector of fields (each the bytes its       *)
(* StaticString views); src records which memory those views point into.   *)
(***************************************************************************)
ArrayNew ==
    [kind |-> "array", state |-> "READING_HEADER", error |-> "UNSET",
     toReserve |-> 0, maxSize |-> 0, headerReader |-> IntNew(SizeofUint16),
     buffer |-> <<>>, result |-> <<>>, src |-> "none"]

\* memchr() for the next NUL at or after position i; 0 when there is none.
RECURSIVE Memchr0(_, _)
Memchr0(data, i) ==
    IF i > Len(data) THEN 0
    ELSE IF data[i] = 0 THEN i
    ELSE Memchr0(data, i + 1)

\* parseBody that also pushes what follows the last NUL.
RECURSIVE ParseBodyKeepTail(_, _)
ParseBodyKeepTail(data, start) ==
    LET terminator == Memchr0(data, start)
    IN  IF terminator = 0
        THEN IF start <= Len(data) THEN <<SubSeq(data, start, Len(data))>> ELSE <<>>
        ELSE <<SubSeq(data, start, terminator - 1)>>
                 \o ParseBodyKeepTail(data, terminator + 1)

RECURSIVE ParseBodyFrom(_, _)
ParseBodyFrom(data, start) ==
    LET terminator == Memchr0(data, start)
    IN  IF terminator = 0 THEN <<>>
        ELSE <<SubSeq(data, start, terminator - 1)>>
                 \o ParseBodyFrom(data, terminator + 1)

parseBody(data) == ParseBodyFrom(data, 1)

ArrayReserve(r, size) == [r EXCEPT !.toReserve = size]

ArraySetMaxSize(r, size) == [r EXCEPT !.maxSize = size]

ArrayReset(r) ==
    [r EXCEPT !.state = "READING_HEADER",
              !.headerReader = IntReset(@),
              !.buffer = <<>>,
              !.result = <<>>,
              !.src = "none"]

ArrayDone(r) == r.state = "DONE" \/ r.state = "ERROR"

ArrayHasError(r) == r.state = "ERROR"

ArrayTooLarge(maxSize, v) == maxSize > 0 /\ v > maxSize

ArrayZeroCopyAnyRest(buffer, rest, v) == buffer = <<>>

ArrayZeroCopy(buffer, rest, v) == buffer = <<>> /\ rest >= v

\* READING_HEADER, after headerReader.feed() returned f.
ArrayHeader(r, f) ==
    [r |-> IF IntDone(SizeofUint16, f.hr)
           THEN IF ArrayTooLarge(r.maxSize, IntValue(f.hr))
                THEN [r EXCEPT !.headerReader = f.hr,
                               !.state = "ERROR",
                               !.error = "TOO_LARGE"]
                ELSE IF IntValue(f.hr) = 0
                THEN [r EXCEPT !.headerReader = f.hr, !.state = "DONE"]
                ELSE [r EXCEPT !.headerReader = f.hr, !.state = "READING_BODY"]
           ELSE [r EXCEPT !.headerReader = f.hr],
     n |-> f.n]

\* READING_BODY, zero-copy: the body is the next v bytes of the caller's data.
ArrayBorrow(r, view, v) ==
    [r |-> [r EXCEPT !.result = @ \o parseBody(view),
                     !.src = "input",
                     !.state = "DONE"],
     n |-> v]

\* READING_BODY, owned buffer: buf is the buffer after append().
ArrayAppend(r, buf, toConsume, v) ==
    [r |-> IF Len(buf) = v
           THEN [r EXCEPT !.buffer = buf,
                          !.result = @ \o parseBody(buf),
                          !.src = "buffer",
                          !.state = "DONE"]
           ELSE [r EXCEPT !.buffer = buf],
     n |-> toConsume]

ArrayToConsume(rest, v, buffered) == Min(rest, v - buffered)

ArrayBody(r, current, v) ==
    IF ArrayZeroCopy(r.buffer, Len(current), v)
    THEN ArrayBorrow(r, Take(current, v), v)
    ELSE ArrayAppend(r,
             r.buffer \o Take(current, ArrayToConsume(Len(current), v, Len(r.buffer))),
             ArrayToConsume(Len(current), v, Len(r.buffer)), v)

\* One iteration of the loop of feed(): the switch on state, applied to the
\* bytes `current` not yet consumed by this call.
ArrayStep(r, current) ==
    CASE r.state = "READING_HEADER" ->
            ArrayHeader(r, IntFeed(SizeofUint16, r.headerReader, current))
      [] r.state = "READING_BODY" ->
            ArrayBody(r, current, IntValue(r.headerReader))
      [] OTHER -> [r |-> [r EXCEPT !.state = "ABORTED"], n |-> 0]

\* The loop condition without !done().
ArrayContinueWhenDone(r, consumed, size) == consumed < size

ArrayContinue(r, consumed, size) == consumed < size /\ ~ArrayDone(r)

\* feed(): path lists the state after each iteration of the loop.
RECURSIVE ArrayFeedLoop(_, _, _, _)
ArrayIterate(s, data, consumed, path) ==
    ArrayFeedLoop(s.r, data, consumed + s.n, Append(path, s.r.state))

ArrayFeedLoop(r, data, consumed, path) ==
    IF ArrayContinue(r, consumed, Len(data)) /\ r.state # "ABORTED"
    THEN ArrayIterate(ArrayStep(r, Drop(data, consumed)), data, consumed, path)
    ELSE [r |-> r, n |-> consumed, path |-> path]

ArrayFeed(r, data) == ArrayFeedLoop(r, data, 0, <<>>)

(***************************************************************************)
(* ScalarMessage.  result is the StaticString (pointer, length): len is    *)
(* its length and bytes what the memory it points into holds.              *)
(***************************************************************************)
ScalarNew(maxSize) ==
    [kind |-> "scalar", state |-> "READING_HEADER", error |-> "UNSET",
     toReserve |-> 0, maxSize |-> maxSize, headerReader |-> IntNew(SizeofUint32),
     buffer |-> <<>>, result |-> <<>>, src |-> "none"]

ScalarSetMaxSize(r, maxSize) == [r EXCEPT !.maxSize = maxSize]

ScalarDone(r) == r.state = "DONE" \/ r.state = "ERROR"

ScalarHasError(r) == r.state = "ERROR"

\* Bytes of memory that nothing keeps valid: -1 until they are read.
Indeterminate(n) == [i \in 1..n |-> -1]

\* reset() leaves result alone: it still points, with its old length, into
\* the caller's earlier input or into the buffer that clear() has emptied,
\* and what those bytes hold from now on is indeterminate.
ScalarReset(r, zeroBuffer) ==
    [r EXCEPT !.state = "READING_HEADER",
              !.headerReader = IntReset(@),
              !.buffer = <<>>,
              !.result = Indeterminate(Len(@)),
              !.src = IF r.result = <<>> THEN r.src ELSE "stale"]

\* value() read when the reader is done: a result that still points into
\* indeterminate memory yields whatever that memory holds.
ScalarRead(r, memory) ==
    IF r.state = "DONE" /\ r.src = "stale" /\ r.result = Indeterminate(Len(r.result))
    THEN [r EXCEPT !.result = memory]
    ELSE r

ScalarTooLargeOffByOne(maxSize, v) == maxSize > 0 /\ v >= maxSize

ScalarTooLarge(maxSize, v) == maxSize > 0 /\ v > maxSize

\* The test with rest > v.
ScalarZeroCopyStrict(buffer, rest, v) == buffer = <<>> /\ rest > v

ScalarZeroCopy(buffer, rest, v) == buffer = <<>> /\ rest >= v

ScalarHeader(r, f) ==
    [r |-> IF IntDone(SizeofUint32, f.hr)
           THEN IF ScalarTooLarge(r.maxSize, IntValue(f.hr))
                THEN [r EXCEPT !.headerReader = f.hr,
                               !.state = "ERROR",
                               !.error = "TOO_LARGE"]
                ELSE IF IntValue(f.hr) = 0
                THEN [r EXCEPT !.headerReader = f.hr, !.state = "DONE"]
                ELSE [r EXCEPT !.headerReader = f.hr, !.state = "READING_BODY"]
           ELSE [r EXCEPT !.headerReader = f.hr],
     n |-> f.n]

ScalarBorrow(r, view, v) ==
    [r |-> [r EXCEPT !.result = view, !.src = "input", !.state = "DONE"],
     n |-> v]

ScalarAppend(r, buf, toConsume, v) ==
    [r |-> IF Len(buf) = v
           THEN [r EXCEPT !.buffer = buf,
                          !.result = buf,
                          !.src = "buffer",
                          !.state = "DONE"]
           ELSE [r EXCEPT !.buffer = buf],
     n |-> toConsume]

\* std::min(rest, buffer.size()): the target left out.
ScalarToConsumeBuffered(rest, v, buffered) == Min(rest, buffered)

ScalarToConsume(rest, v, buffered) == Min(rest, v - buffered)

ScalarBody(r, current, v) ==
    IF ScalarZeroCopy(r.buffer, Len(current), v)
    THEN ScalarBorrow(r, Take(current, v), v)
    ELSE ScalarAppend(r,
             r.buffer \o Take(current, ScalarToConsume(Len(current), v, Len(r.buffer))),
             ScalarToConsume(Len(current), v, Len(r.buffer)), v)

\* The READING_HEADER case without its break: it runs on into READING_BODY
\* with the current and rest computed at the top of the iteration.
ScalarFallThrough(h, current) ==
    [r |-> ScalarBody(h.r, current, IntValue(h.r.headerReader)).r,
     n |-> h.n + ScalarBody(h.r, current, IntValue(h.r.headerReader)).n]

ScalarStepNoBreak(r, current) ==
    CASE r.state = "READING_HEADER" ->
            ScalarFallThrough(
                ScalarHeader(r, IntFeed(SizeofUint32, r.headerReader, current)),
                current)
      [] r.state = "READING_BODY" ->
            ScalarBody(r, current, IntValue(r.headerReader))
      [] OTHER -> [r |-> [r EXCEPT !.state = "ABORTED"], n |-> 0]

ScalarStep(r, current) ==
    CASE r.state = "READING_HEADER" ->
            ScalarHeader(r, IntFeed(SizeofUint32, r.headerReader, current))
      [] r.state = "READING_BODY" ->
            ScalarBody(r, current, IntValue(r.headerReader))
      [] OTHER -> [r |-> [r EXCEPT !.state = "ABORTED"], n |-> 0]

ScalarContinueWhenDone(r, consumed, size) == consumed < size

ScalarContinue(r, consumed, size) == consumed < size /\ ~ScalarDone(r)

RECURSIVE ScalarFeedLoop(_, _, _, _)
ScalarIterate(s, data, consumed, path) ==
    ScalarFeedLoop(s.r, data, consumed + s.n, Append(path, s.r.state))

ScalarFeedLoop(r, data, consumed, path) ==
    IF ScalarContinue(r, consumed, Len(data)) /\ r.state # "ABORTED"
    THEN ScalarIterate(ScalarStep(r, Drop(data, consumed)), data, consumed, path)
    ELSE [r |-> r, n |-> consumed, path |-> path]

ScalarFeed(r, data) == ScalarFeedLoop(r, data, 0, <<>>)

(***************************************************************************)
(* The generators.  A StaticString is a view: the buffer it points into    *)
(* (buf, and at, the index of an argument), and its size.  A call is given *)
(* the header buffer and the output array as they are, and yields error    *)
(* (the ArgumentException thrown, or "none") and the two as it left them.  *)
(* A size_t or unsigned value v is kept as [hi, lo], v = hi * 65536 + lo:  *)
(* size_t has 64 bits, unsigned int and uint32_t have 32.                  *)
(***************************************************************************)
Size(n) == [hi |-> n \div HalfWord, lo |-> n % HalfWord]

SizeAdd(a, b) ==
    [hi |-> a.hi + b.hi + (a.lo + b.lo) \div HalfWord,
     lo |-> (a.lo + b.lo) % HalfWord]

SizeGreater(a, b) == a.hi > b.hi \/ (a.hi = b.hi /\ a.lo > b.lo)

\* The conversion of a size_t to unsigned int or uint32_t.
ToUint32(a) == [hi |-> a.hi % HalfWord, lo |-> a.lo]

\* The integer v in w bytes of memory, lowest address first.
HostStoreSize(v, w) ==
    IF w <= SizeofUint16 THEN HostStore(v.lo, w)
    ELSE HostStore(v.lo, SizeofUint16) \o HostStore(v.hi, w - SizeofUint16)

\* Uint16Message::generate / Uint32Message::generate: the parameter is
\* uint16_t/uint32_t, so the low w bytes of v are kept.
IntGenerate(w, v) == HostToNet(HostStoreSize(v, w))

StaticString(buf, at, size) == [buf |-> buf, at |-> at, size |-> size]

\* A slot of an output array that nothing has been assigned to.
NoView == StaticString("none", 0, Size(0))

\* StaticString("\0", 1)
NulView == StaticString("NUL", 0, Size(1))

\* StaticString(headerBuf, sizeof(uint16_t)) / StaticString(headerBuf, sizeof(uint32_t))
HeaderView(w) == StaticString("headerBuf", 0, Size(w))

\* The views of the caller's byte strings, as it passes them to generate().
Strings(items) ==
    [k \in 1..Len(items) |-> StaticString("data", k, Size(Len(items[k])))]

\* What a writev() of the output array puts on the connection, view by view.
Viewed(g, items) ==
    [k \in 1..Len(g.out) |->
        CASE g.out[k].buf = "headerBuf" -> g.headerBuf
          [] g.out[k].buf = "data" -> items[g.out[k].at]
          [] g.out[k].buf = "NUL" -> <<0>>
          [] OTHER -> <<>>]

Flatten(views) ==
    LET RECURSIVE Cat(_)
        Cat(k) == IF k = 0 THEN <<>> ELSE Cat(k - 1) \o views[k]
    IN  Cat(Len(views))

outputSize(argsCount) == argsCount * 2 + 1

\* The size loop without the terminators: size += args[i].size().
ArraySizeNoTerminators(args) ==
    LET RECURSIVE Sum(_)
        Sum(k) == IF k = 0 THEN Size(0)
                  ELSE ToUint32(SizeAdd(Sum(k - 1), args[k].size))
    IN  Sum(Len(args))

\* unsigned int size = 0;
\* for (i = 0; i < argsCount; i++) size += args[i].size() + 1;
ArraySize(args) ==
    LET RECURSIVE Sum(_)
        Sum(k) == IF k = 0 THEN Size(0)
                  ELSE ToUint32(SizeAdd(Sum(k - 1), SizeAdd(args[k].size, Size(1))))
    IN  Sum(Len(args))

\* out[1 + 2 * i] = args[i]; out[1 + 2 * i + 1] = StaticString("\0", 1);
ArrayItems(args) ==
    LET RECURSIVE Put(_)
        Put(k) == IF k = 0 THEN <<>> ELSE Put(k - 1) \o <<args[k], NulView>>
    IN  Put(Len(args))

\* ArrayMessage::generate(args, argsCount, headerBuf, out, outCount), with
\* outCount the length of out.
ArrayGenerate(args, headerBuf, out) ==
    IF Len(out) < outputSize(Len(args))
    THEN [error |-> "outCount too small.", headerBuf |-> headerBuf, out |-> out]
    ELSE IF SizeGreater(ArraySize(args), Size(ArrayMaxBody))
    THEN [error |-> "Data size exceeds maximum size for array messages.",
          headerBuf |-> headerBuf, out |-> out]
    ELSE [error |-> "none",
          headerBuf |-> IntGenerate(SizeofUint16, ArraySize(args)),
          out |-> <<HeaderView(SizeofUint16)>> \o ArrayItems(args)
                     \o SubSeq(out, outputSize(Len(args)) + 1, Len(out))]

\* 0xFFFFFFFF
Uint32Max == [hi |-> HalfWord - 1, lo |-> HalfWord - 1]

\* size > 0xFFFFFFFF
ExceedsUint32(size) == SizeGreater(size, Uint32Max)

\* ScalarMessage::generate(data, headerBuf, output)
ScalarGenerate(data, headerBuf, output) ==
    IF ExceedsUint32(data.size)
    THEN [error |-> "Data size exceeds maximum size for scalar messages.",
          headerBuf |-> headerBuf, out |-> output]
    ELSE [error |-> "none",
          headerBuf |-> IntGenerate(SizeofUint32, data.size),
          out |-> <<HeaderView(SizeofUint32), data>>]

\* uint32_t totalSize = 0; ... totalSize += data[i].size();
ScalarTotalSize(data) ==
    LET RECURSIVE Sum(_)
        Sum(k) == IF k = 0 THEN Size(0)
                  ELSE ToUint32(SizeAdd(Sum(k - 1), data[k].size))
    IN  Sum(Len(data))

\* The loop with the test on the running total as well as on the fragment.
RejectedOrSumTooLarge(data) ==
    {i \in 1..Len(data) :
        \/ ExceedsUint32(data[i].size)
        \/ \E j \in 1..i : SizeGreater(ScalarTotalSize(SubSeq(data, 1, j - 1)),
                                       ScalarTotalSize(SubSeq(data, 1, j)))}

\* The fragments at which the loop throws: data[i].size() > 0xFFFFFFFF.
Rejected(data) == {i \in 1..Len(data) : ExceedsUint32(data[i].size)}

\* The first fragment the loop throws at, one past the last if it throws at
\* none.
LoopEnd(rejected, count) ==
    IF rejected = {} THEN count + 1
    ELSE CHOOSE i \in rejected : \A j \in rejected : i <= j

\* ScalarMessage::generate(data, count, headerBuf, output): every fragment
\* before the one the loop throws at has been assigned to its slot.
ScalarGenerateMulti(data, headerBuf, output) ==
    LET end == LoopEnd(Rejected(data), Len(data))
        assigned == [k \in 1..Len(output) |->
                        IF k >= 2 /\ k <= end THEN data[k - 1] ELSE output[k]]
    IN  IF end <= Len(data)
        THEN [error |-> "Data size exceeds maximum size for scalar messages.",
              headerBuf |-> headerBuf, out |-> assigned]
        ELSE [error |-> "none",
              headerBuf |-> IntGenerate(SizeofUint32, ScalarTotalSize(data)),
              out |-> [assigned EXCEPT ![1] = HeaderView(SizeofUint32)]]

\* A header buffer and an output array of n slots that nothing was written to.
BlankHeader(w) == Indeterminate(w)

BlankOutput(n) == [k \in 1..n |-> NoView]

(***************************************************************************)
(* The caller: one message object, and the calls of its public interface.  *)
(***************************************************************************)
Kinds == {"uint16", "uint32", "array", "scalar"}

IsMessage(r) == r.kind \in {"array", "scalar"}

\* A bare integer reader has no state machine, ceiling, buffer or result.
CodecNew(kind, w) ==
    [kind |-> kind, state |-> "NA", error |-> "UNSET", toReserve |-> 0,
     maxSize |-> 0, headerReader |-> IntNew(w), buffer |-> <<>>,
     result |-> <<>>, src |-> "none"]

Width(kind) == IF kind \in {"uint16", "array"} THEN SizeofUint16 ELSE SizeofUint32

New(kind) ==
    CASE kind = "uint16" -> CodecNew(kind, SizeofUint16)
      [] kind = "uint32" -> CodecNew(kind, SizeofUint32)
      [] kind = "array"  -> ArrayNew
      [] kind = "scalar" -> ScalarNew(0)

Done(r) ==
    CASE r.kind = "array"  -> ArrayDone(r)
      [] r.kind = "scalar" -> ScalarDone(r)
      [] OTHER             -> IntDone(Width(r.kind), r.headerReader)

HasError(r) ==
    CASE r.kind = "array"  -> ArrayHasError(r)
      [] r.kind = "scalar" -> ScalarHasError(r)
      [] OTHER             -> FALSE

\* value(): the vector of fields, the payload, or the integer.
Value(r) == IF IsMessage(r) THEN r.result ELSE IntValue(r.headerReader)

CallFeed(r, data) ==
    CASE r.kind = "array"  -> ArrayFeed(r, data)
      [] r.kind = "scalar" -> ScalarFeed(r, data)
      [] OTHER ->
            LET f == IntFeed(Width(r.kind), r.headerReader, data)
            IN  [r |-> [r EXCEPT !.headerReader = f.hr], n |-> f.n, path |-> <<>>]

CallReset(r, zeroBuffer) ==
    CASE r.kind = "array"  -> ArrayReset(r)
      [] r.kind = "scalar" -> ScalarReset(r, zeroBuffer)
      [] OTHER             -> [r EXCEPT !.headerReader = IntReset(@)]

\* What a stale ScalarMessage result can be found to hold once it is readable.
Memories(r) ==
    IF r.kind = "scalar" /\ ScalarRead(r, <<>>) # r
    THEN SeqsOfLen(Byte, Len(r.result))
    ELSE {<<>>}

Read(r, memory) == IF r.kind = "scalar" THEN ScalarRead(r, memory) ELSE r

InBody(path) == \E i \in 1..Len(path) : path[i] = "READING_BODY"

\* The byte sequences a caller passes to feed(), by length.
Chunks == [n \in 0..MaxChunk |-> SeqsOfLen(Byte, n)]

\* last: "none" before the first feed(); "afterDone" for a feed() of size > 0
\* on an object that was done; "short" for another feed() that returned less
\* than size; "all" otherwise.
Outcome(wasDone, size, ret) ==
    IF wasDone /\ size > 0 THEN "afterDone"
    ELSE IF ret < size THEN "short"
    ELSE "all"

\* No generate() has been called.
NoGenerator ==
    gen = [op |-> "none", args |-> <<>>, error |-> "none", headerBuf |-> <<>>,
           out |-> <<>>, returned |-> FALSE]

\* No read() or write() has been called in the build that serialises them.
NoLockedCalls ==
    /\ ops = <<>>
    /\ ioResult = <<>>
    /\ preadWriteLock = <<>>

\* No feed() call is followed through its loop.
NoCall == call = [pc |-> "none"]

\* Nobody has called waitUntilIdle().
NoWaiter == idle = [pc |-> "none", saw |-> <<>>]

\* The memory behind the buffer is not followed.
NoStorage == store = [after |-> "none"]

\* No DeadlineTimer has been made.
NoTimer == dt = [pc |-> "none"]

\* No writev, writev2 or writev3 has been called.
NoWritev == writev = [pc |-> "none"]

\* The statics of MultiLibeio.cpp as initialised, no request made, and
\* nothing queued in the engine or the reactor.
NoDispatcher ==
    /\ shouldPoll = FALSE
    /\ quit = FALSE
    /\ thr = "NULL"
    /\ dpc = "none"
    /\ signalled = FALSE
    /\ spc = "idle"
    /\ reqs = <<>>
    /\ resQueue = <<>>
    /\ loopQueue = <<>>
    /\ owed = FALSE
    /\ asked = FALSE
    /\ cycles = 0
    /\ syncher = "free"

Init ==
    /\ rd \in {New(k) : k \in Kinds}
    /\ offered = <<>>
    /\ total = 0
    /\ last = "none"
    /\ body = FALSE
    /\ wire = <<>>
    /\ sent = <<>>
    /\ made = <<>>
    /\ recvBuf = <<>>
    /\ bufConsumed = 0
    /\ delivered = <<>>
    /\ NoDispatcher
    /\ NoLockedCalls
    /\ NoCall
    /\ NoWaiter
    /\ NoStorage
    /\ NoTimer
    /\ NoWritev
    /\ NoGenerator

\* feed(data, size) with the size bytes data.
FeedWith(data) ==
    /\ \E f \in {CallFeed(rd, data)} :
         /\ \E memory \in Memories(f.r) : rd' = Read(f.r, memory)
         /\ offered' = offered \o data
         /\ total' = total + f.n
         /\ last' = Outcome(Done(rd), Len(data), f.n)
         /\ body' = (body \/ InBody(f.path))
    /\ UNCHANGED wireVars
    /\ UNCHANGED <<eioVars, genVars, restVars>>

Feed ==
    \E n \in 0..Min(MaxChunk, Width(rd.kind) + MaxTail - Len(offered)) :
      \E data \in Chunks[n] : FeedWith(data)

Reset ==
    /\ \E zeroBuffer \in BOOLEAN :
         /\ zeroBuffer => rd.kind = "scalar"
         /\ rd' = CallReset(rd, zeroBuffer)
    /\ offered' = <<>>
    /\ total' = 0
    /\ last' = "none"
    /\ body' = FALSE
    /\ UNCHANGED wireVars
    /\ UNCHANGED <<eioVars, genVars, restVars>>

SetMaxSize ==
    /\ \E size \in 0..MaxCeiling :
         \/ rd.kind = "array" /\ rd' = ArraySetMaxSize(rd, size)
         \/ rd.kind = "scalar" /\ rd' = ScalarSetMaxSize(rd, size)
    /\ UNCHANGED <<offered, total, last, body>>
    /\ UNCHANGED wireVars
    /\ UNCHANGED <<eioVars, genVars, restVars>>

\* reserve() with a hint of 0..MaxCeiling fields.
Reserve ==
    /\ rd.kind = "array"
    /\ \E size \in 0..MaxCeiling : rd' = ArrayReserve(rd, size)
    /\ UNCHANGED <<offered, total, last, body>>
    /\ UNCHANGED wireVars
    /\ UNCHANGED <<eioVars, genVars, restVars>>

Next == Feed \/ Reset \/ SetMaxSize \/ Reserve

Spec == Init /\ [][Next]_vars

(***************************************************************************)
(* A connection.  The peer writes array or scalar messages, made with      *)
(* generate() or framed by a foreign writer, and the receiver runs the     *)
(* loop of the file documentation: recv() a chunk, feed() what is not yet  *)
(* consumed, and on done() take value() and reset().                       *)
(***************************************************************************)
\* The argument lists of ArrayMessage::generate whose message body has n bytes.
RECURSIVE ItemLists(_)
ItemLists(n) ==
    IF n = 0 THEN {<<>>}
    ELSE UNION {{<<item>> \o others : item \in SeqsOfLen(Byte, k - 1),
                                     others \in ItemLists(n - k)} : k \in 1..n}

\* The ways to hand n payload bytes to ScalarMessage::generate as count fragments.
RECURSIVE FragLists(_, _)
FragLists(n, count) ==
    IF count = 0 THEN (IF n = 0 THEN {<<>>} ELSE {})
    ELSE UNION {{<<frag>> \o others : frag \in SeqsOfLen(Byte, k),
                                     others \in FragLists(n - k, count - 1)} : k \in 0..n}

ArrayArgs == [n \in 0..MaxLoad |-> ItemLists(n)]

ScalarArgs ==
    [n \in 0..MaxLoad |-> UNION {FragLists(n, count) : count \in 1..MaxFrags}]

\* The bodies ArrayMessage::generate never produces: those not ending in NUL.
Bodies ==
    [n \in 0..MaxLoad |-> {bytes \in SeqsOfLen(Byte, n) : n > 0 /\ bytes[n] # 0}]

\* The messages written so far plus their body bytes.
RECURSIVE Load(_, _)
Load(msgs, w) ==
    IF msgs = <<>> THEN 0 ELSE 1 + Len(Head(msgs)) - w + Load(Tail(msgs), w)

\* The largest body the peer may still write; -1 when it may write nothing.
BodyRoom == MaxLoad - Load(sent, Width(rd.kind)) - 1

InitWire ==
    /\ rd \in {New("array"), New("scalar")}
    /\ offered = <<>>
    /\ total = 0
    /\ last = "none"
    /\ body = FALSE
    /\ wire = <<>>
    /\ sent = <<>>
    /\ made = <<>>
    /\ recvBuf = <<>>
    /\ bufConsumed = 0
    /\ delivered = <<>>
    /\ NoDispatcher
    /\ NoLockedCalls
    /\ NoCall
    /\ NoWaiter
    /\ NoStorage
    /\ NoTimer
    /\ NoWritev
    /\ NoGenerator

Write(msg, how) ==
    /\ wire' = wire \o msg
    /\ sent' = Append(sent, msg)
    /\ made' = Append(made, how)
    /\ UNCHANGED <<recvBuf, bufConsumed, delivered>>
    /\ UNCHANGED apiVars
    /\ UNCHANGED <<eioVars, genVars, restVars>>

\* The peer writes the views of ArrayMessage::generate, in order.
SendArray ==
    /\ rd.kind = "array"
    /\ \E n \in 0..BodyRoom :
         \E args \in ArrayArgs[n] :
           \E g \in {ArrayGenerate(Strings(args), BlankHeader(SizeofUint16),
                                   BlankOutput(outputSize(Len(args))))} :
             /\ g.error = "none"
             /\ Write(Flatten(Viewed(g, args)), [by |-> "generate", value |-> args])

\* The peer writes the views of ScalarMessage::generate: of the overload
\* that takes one payload view, or of the one that takes fragments.
SendScalar ==
    /\ rd.kind = "scalar"
    /\ \E n \in 0..BodyRoom :
         \E data \in ScalarArgs[n] :
           \E by \in IF Len(data) = 1 THEN {"generate", "fragments"}
                                      ELSE {"fragments"} :
             \E g \in {IF by = "generate"
                        THEN ScalarGenerate(Strings(data)[1], BlankHeader(SizeofUint32),
                                            BlankOutput(2))
                        ELSE ScalarGenerateMulti(Strings(data), BlankHeader(SizeofUint32),
                                                 BlankOutput(Len(data) + 1))} :
               /\ g.error = "none"
               /\ Write(Flatten(Viewed(g, data)), [by |-> by, value |-> Flatten(data)])

\* A writer other than generate() frames an array body: the length, most
\* significant byte first, and then the bytes.
RECURSIVE BigEndianBytes(_, _)
BigEndianBytes(v, w) ==
    IF w = 0 THEN <<>> ELSE BigEndianBytes(v \div 256, w - 1) \o <<v % 256>>

SendRaw ==
    /\ rd.kind = "array"
    /\ \E n \in 0..BodyRoom :
         \E bytes \in Bodies[n] :
           Write(BigEndianBytes(n, Width(rd.kind)) \o bytes,
                 [by |-> "raw", value |-> bytes])

\* The receiver sets the ceiling before it starts to read.
Configure ==
    /\ offered = <<>> /\ recvBuf = <<>> /\ delivered = <<>>
    /\ \E size \in 0..MaxCeiling :
         \/ rd.kind = "array" /\ rd' = ArraySetMaxSize(rd, size)
         \/ rd.kind = "scalar" /\ rd' = ScalarSetMaxSize(rd, size)
    /\ UNCHANGED <<offered, total, last, body>>
    /\ UNCHANGED wireVars
    /\ UNCHANGED <<eioVars, genVars, restVars>>

\* ssize_t size = recv(fd, buf, sizeof(buf)); size_t consumed = 0;
Recv ==
    /\ bufConsumed = Len(recvBuf)
    /\ ~Done(rd)
    /\ \E n \in 1..Min(MaxChunk, Len(wire)) :
         /\ recvBuf' = Take(wire, n)
         /\ wire' = Drop(wire, n)
    /\ bufConsumed' = 0
    /\ UNCHANGED <<sent, made, delivered>>
    /\ UNCHANGED apiVars
    /\ UNCHANGED <<eioVars, genVars, restVars>>

\* consumed += reader.feed(buf + consumed, size - consumed);
LoopFeed ==
    /\ bufConsumed < Len(recvBuf)
    /\ ~Done(rd)
    /\ \E f \in {CallFeed(rd, Drop(recvBuf, bufConsumed))} :
         /\ \E memory \in Memories(f.r) : rd' = Read(f.r, memory)
         /\ bufConsumed' = bufConsumed + f.n
         /\ offered' = offered \o Drop(recvBuf, bufConsumed)
         /\ total' = total + f.n
         /\ last' = Outcome(Done(rd), Len(recvBuf) - bufConsumed, f.n)
         /\ body' = (body \/ InBody(f.path))
    /\ UNCHANGED <<wire, sent, made, recvBuf, delivered>>
    /\ UNCHANGED <<eioVars, genVars, restVars>>

\* if (reader.done()) { use reader.value(); reader.reset(); }
\* A reader that reports an error is not reset: the connection is given up.
Deliver ==
    /\ Done(rd)
    /\ ~HasError(rd)
    /\ delivered' = Append(delivered, Value(rd))
    /\ \E zeroBuffer \in BOOLEAN :
         /\ zeroBuffer => rd.kind = "scalar"
         /\ rd' = CallReset(rd, zeroBuffer)
    /\ offered' = <<>>
    /\ total' = 0
    /\ last' = "none"
    /\ body' = FALSE
    /\ UNCHANGED <<wire, sent, made, recvBuf, bufConsumed>>
    /\ UNCHANGED <<eioVars, genVars, restVars>>

NextWire ==
    \/ SendArray
    \/ SendScalar
    \/ SendRaw
    \/ Configure
    \/ Recv
    \/ LoopFeed
    \/ Deliver

SpecWire == InitWire /\ [][NextWire]_vars

(***************************************************************************)
(* The generators called on views of any size: a caller passes views of    *)
(* its buffers, from empty ones to ones beyond 4 GiB, a header buffer and  *)
(* an output array it has not written to.                                  *)
(***************************************************************************)
\* The sizes of the views: around 0, 0xFFFF, 0xFFFFFFFF and their successors.
Sizes ==
    {[hi |-> h, lo |-> l] : h \in {0, 1, HalfWord - 1, HalfWord},
                            l \in {0, 1, HalfWord - 2, HalfWord - 1}}

\* The array of n views, each of its own buffer, of the sizes sz.
Views(n, sz) == [k \in 1..n |-> StaticString("data", k, sz[k])]

\* A call about to be made: the arguments, and the header buffer and the
\* output array before it.
Pending(op, args, w, slots) ==
    [op |-> op, args |-> args, error |-> "none", headerBuf |-> BlankHeader(w),
     out |-> BlankOutput(slots), returned |-> FALSE]

\* ArrayMessage::generate is about to be called with up to MaxItems items
\* and any outCount, or one of the two overloads of ScalarMessage::generate,
\* the output array of the second of count + 1 slots at least.
InitGen ==
    /\ rd = New("uint16")
    /\ offered = <<>>
    /\ total = 0
    /\ last = "none"
    /\ body = FALSE
    /\ wire = <<>>
    /\ sent = <<>>
    /\ made = <<>>
    /\ recvBuf = <<>>
    /\ bufConsumed = 0
    /\ delivered = <<>>
    /\ NoDispatcher
    /\ NoLockedCalls
    /\ NoCall
    /\ NoWaiter
    /\ NoStorage
    /\ NoTimer
    /\ NoWritev
    /\ \/ \E argsCount \in 0..MaxItems :
            \E sz \in [1..argsCount -> Sizes] :
              \E outCount \in 0..outputSize(MaxItems) + MaxSpare :
                gen = Pending("array", Views(argsCount, sz), SizeofUint16, outCount)
       \/ \E sz \in [1..1 -> Sizes] :
            gen = Pending("scalar", Views(1, sz), SizeofUint32, 2)
       \/ \E count \in 0..MaxFrags :
            \E sz \in [1..count -> Sizes] :
              \E spare \in 0..MaxSpare :
                gen = Pending("fragments", Views(count, sz), SizeofUint32,
                              count + 1 + spare)

\* The call returns or throws.
Returned(g) ==
    [gen EXCEPT !.error = g.error, !.headerBuf = g.headerBuf, !.out = g.out,
                !.returned = TRUE]

\* ArrayMessage::generate(args, argsCount, headerBuf, out, outCount)
GenerateArray ==
    /\ gen.op = "array" /\ ~gen.returned
    /\ gen' = Returned(ArrayGenerate(gen.args, gen.headerBuf, gen.out))
    /\ UNCHANGED <<apiVars, wireVars, eioVars, restVars>>

\* ScalarMessage::generate(data, headerBuf, output)
GenerateScalar ==
    /\ gen.op = "scalar" /\ ~gen.returned
    /\ gen' = Returned(ScalarGenerate(gen.args[1], gen.headerBuf, gen.out))
    /\ UNCHANGED <<apiVars, wireVars, eioVars, restVars>>

\* ScalarMessage::generate(data, count, headerBuf, output)
GenerateFragments ==
    /\ gen.op = "fragments" /\ ~gen.returned
    /\ gen' = Returned(ScalarGenerateMulti(gen.args, gen.headerBuf, gen.out))
    /\ UNCHANGED <<apiVars, wireVars, eioVars, restVars>>

NextGen == GenerateArray \/ GenerateScalar \/ GenerateFragments

SpecGen == InitGen /\ [][NextGen]_vars

(***************************************************************************)
(* MultiLibeio.cpp: the dispatcher.  The reactor thread submits requests;  *)
(* the engine (libeio) runs each on one of its worker threads, queues the  *)
(* finished request and calls the wake hook; the dispatch thread runs      *)
(* threadMain(), whose eio_poll() calls dispatch() for each finished       *)
(* request; the reactor runs what runAsync() was handed.  syncher is held  *)
(* only inside a step: a step that takes it runs to where it is released.  *)
(***************************************************************************)
\* #define PREAD_AND_PWRITE_ARE_NOT_THREADSAFE 0 (not __APPLE__)
PreadAndPwriteAreNotThreadsafe == FALSE

OpKinds == {"open", "read", "write", "custom"}

\* read() and write() go through custom() where pread/pwrite are not
\* threadsafe.
ThroughCustom(kind) ==
    kind = "custom" \/ (kind \in {"read", "write"} /\ PreadAndPwriteAreNotThreadsafe)

\* new Data(libev, callback): the members of Data, no execute member.
NewData ==
    [type |-> "Data", members |-> "live", execute |-> "none",
     memory |-> "allocated", deletes |-> 0]

\* new CustomData(libev, callback, execute)
NewCustomData ==
    [type |-> "CustomData", members |-> "live", execute |-> "live",
     memory |-> "allocated", deletes |-> 0]

\* delete through a pointer of the object's own type: every member is
\* destroyed and the memory released.
Delete(ctx) ==
    [ctx EXCEPT !.members = "destroyed",
                !.execute = IF @ = "none" THEN "none" ELSE "destroyed",
                !.memory = "freed",
                !.deletes = @ + 1]

\* delete through a Data *.  Data has no virtual destructor, so for a
\* CustomData object this is undefined: ~Data() runs and the memory is
\* released, and execute is either left undestroyed, what it holds never
\* released, or holds nothing that needed releasing.
DeleteAsData(ctx) ==
    IF ctx.type = "Data" THEN {Delete(ctx)}
    ELSE {[Delete(ctx) EXCEPT !.execute = e] : e \in {"leaked", "destroyed"}}

\* A request as the engine accepted it (eio_open/read/write/custom returned
\* it), or as it refused it: delete data; return NULL.
Accepted(kind, ctx) ==
    [kind |-> kind, ctx |-> ctx, phase |-> "queued", returned |-> "request",
     workOn |-> <<>>, handedBy |-> <<>>, callbackOn |-> <<>>]

\* The refusal branch without delete data.
RefusedNoDelete(kind, ctx) ==
    [kind |-> kind, ctx |-> ctx, phase |-> "refused", returned |-> "NULL",
     workOn |-> <<>>, handedBy |-> <<>>, callbackOn |-> <<>>]

Refused(kind, ctx) ==
    [kind |-> kind, ctx |-> Delete(ctx), phase |-> "refused", returned |-> "NULL",
     workOn |-> <<>>, handedBy |-> <<>>, callbackOn |-> <<>>]

\* MAKE_REQUEST(code)
MAKE_REQUEST(kind, result) ==
    IF result = "NULL" THEN Refused(kind, NewData) ELSE Accepted(kind, NewData)

\* MultiLibeio::custom
custom(kind, result) ==
    IF result = "NULL" THEN Refused(kind, NewCustomData)
                       ELSE Accepted(kind, NewCustomData)

\* cond.notify_one(): wakes the dispatch thread if it is in cond.wait().
NotifyOne == signalled \/ dpc = "waiting"

\* threadMain() with the inner loop while (!shouldPoll), quit not tested.
ThreadMainLoopWaitIgnoresQuit(q, poll) ==
    IF ~poll THEN "waiting" ELSE IF q THEN "exited" ELSE "polling"

\* threadMain() at the test of its outer loop, syncher held: it returns, or
\* unlocks and calls eio_poll(), or waits on cond.
ThreadMainLoop(q, poll) ==
    IF q THEN "exited" ELSE IF poll THEN "polling" ELSE "waiting"

\* threadMain() that calls eio_poll() without l.unlock().
ReleasedExceptToPoll(pc) == IF pc = "polling" THEN "dispatch" ELSE "free"

\* syncher once the dispatch thread, holding it at the loop test, has gone
\* on: cond.wait(l) and l.unlock() release it, and so does the destructor
\* of l when threadMain() returns.
Released(pc) == "free"

\* The dispatch thread takes syncher (the constructor of l, the return of
\* cond.wait(l), or l.lock()) and goes on from the loop test.
EnterLoop ==
    /\ syncher = "free"
    /\ dpc' = ThreadMainLoop(quit, shouldPoll)
    /\ syncher' = Released(ThreadMainLoop(quit, shouldPoll))
    /\ signalled' = FALSE
    /\ owed' = (owed /\ ThreadMainLoop(quit, shouldPoll) # "polling")
    /\ asked' = (asked /\ ThreadMainLoop(quit, shouldPoll) # "polling")
    /\ UNCHANGED <<shouldPoll, quit, thr, spc, reqs, resQueue, loopQueue, cycles>>
    /\ UNCHANGED <<apiVars, wireVars, genVars, restVars>>

InitEio ==
    /\ rd = New("uint16")
    /\ offered = <<>>
    /\ total = 0
    /\ last = "none"
    /\ body = FALSE
    /\ wire = <<>>
    /\ sent = <<>>
    /\ made = <<>>
    /\ recvBuf = <<>>
    /\ bufConsumed = 0
    /\ delivered = <<>>
    /\ NoDispatcher
    /\ NoLockedCalls
    /\ NoCall
    /\ NoWaiter
    /\ NoStorage
    /\ NoTimer
    /\ NoWritev
    /\ NoGenerator

\* MultiLibeio::init: eio_init(wantPoll, NULL); thr = new oxt::thread(threadMain, ...)
MultiLibeioInit ==
    /\ thr = "NULL" /\ spc = "idle"
    /\ cycles < MaxCycles
    /\ thr' = "thread"
    /\ dpc' = "start"
    /\ cycles' = cycles + 1
    /\ UNCHANGED <<shouldPoll, quit, signalled, spc, reqs, resQueue, loopQueue, owed, asked,
                   syncher>>
    /\ UNCHANGED <<apiVars, wireVars, genVars, restVars>>

\* MultiLibeio::shutdown up to thr->join(): lock; quit = true;
\* cond.notify_one(); unlock.
ShutdownBegin ==
    /\ thr # "NULL" /\ spc = "idle"
    /\ syncher = "free"
    /\ quit' = TRUE
    /\ signalled' = NotifyOne
    /\ spc' = "joining"
    /\ UNCHANGED <<shouldPoll, thr, dpc, reqs, resQueue, loopQueue, owed, asked, cycles, syncher>>
    /\ UNCHANGED <<apiVars, wireVars, genVars, restVars>>

\* thr->join() returns once threadMain() has; delete thr; thr = NULL;
\* quit = false.
ShutdownJoin ==
    /\ spc = "joining" /\ dpc = "exited"
    /\ dpc' = "none"
    /\ thr' = "NULL"
    /\ quit' = FALSE
    /\ spc' = "idle"
    /\ UNCHANGED <<shouldPoll, signalled, reqs, resQueue, loopQueue, owed, asked, cycles, syncher>>
    /\ UNCHANGED <<apiVars, wireVars, genVars, restVars>>

\* The reactor thread calls open/read/write/custom between init() and
\* shutdown(); the engine returns a request or NULL.
Submit(kind) ==
    /\ thr # "NULL" /\ spc = "idle"
    /\ Len(reqs) < MaxReqs
    /\ \E result \in {"NULL", "request"} :
         reqs' = Append(reqs, IF ThroughCustom(kind) THEN custom(kind, result)
                                                     ELSE MAKE_REQUEST(kind, result))
    /\ UNCHANGED <<shouldPoll, quit, thr, dpc, signalled, spc, resQueue, loopQueue,
                   owed, asked, cycles, syncher>>
    /\ UNCHANGED <<apiVars, wireVars, genVars, restVars>>

SubmitOpen == Submit("open")

SubmitRead == Submit("read")

SubmitWrite == Submit("write")

SubmitCustom == Submit("custom")

\* wantPoll() without shouldPoll = true.
wantPollNotifyOnly ==
    /\ syncher = "free"
    /\ shouldPoll' = shouldPoll
    /\ signalled' = NotifyOne
    /\ owed' = TRUE
    /\ asked' = TRUE

\* wantPoll(): lock; shouldPoll = true; cond.notify_one().
wantPoll ==
    /\ syncher = "free"
    /\ shouldPoll' = TRUE
    /\ signalled' = NotifyOne
    /\ owed' = TRUE
    /\ asked' = TRUE

\* A worker thread runs the request: for a CustomData context
\* executeWrapper() calls data->execute(req); else the engine's own
\* operation.  A context whose memory was freed is used after free.
Executed(r) ==
    [r EXCEPT !.workOn = Append(@, "worker"),
              !.phase = "finished",
              !.ctx.members = IF r.ctx.memory = "freed" THEN "usedAfterFree" ELSE @]

\* The worker then queues the finished request, and the engine calls the
\* wake hook if nothing was waiting to be drained.
Work ==
    /\ \E i \in 1..Len(reqs) :
         /\ reqs[i].phase = "queued"
         /\ reqs' = [reqs EXCEPT ![i] = Executed(@)]
         /\ resQueue' = Append(resQueue, i)
    /\ IF resQueue = <<>> THEN wantPoll
                          ELSE UNCHANGED <<shouldPoll, signalled, owed, asked>>
    /\ UNCHANGED <<quit, thr, dpc, spc, loopQueue, cycles, syncher>>
    /\ UNCHANGED <<apiVars, wireVars, genVars, restVars>>

\* SafeLibev::runAsync: queue the callback for the reactor thread.
runAsync(queue, i) == Append(queue, i)

\* dispatch() that leaves the context to the callback: no auto_ptr.
dispatchKeepContext(r, i, queue) ==
    {[r |-> [r EXCEPT !.handedBy = Append(@, "dispatch"),
                      !.phase = "dispatched"],
      queue |-> runAsync(queue, i)]}

\* dispatch() that puts the callback ahead of those the reactor has not run.
dispatchInFront(r, i, queue) ==
    {[r |-> [r EXCEPT !.ctx = c,
                      !.handedBy = Append(@, "dispatch"),
                      !.phase = "dispatched"],
      queue |-> <<i>> \o queue] : c \in DeleteAsData(r.ctx)}

\* dispatch() that calls the callback itself.
dispatchDirect(r, i, queue) ==
    {[r |-> [r EXCEPT !.ctx = c,
                      !.callbackOn = Append(@, "dispatch"),
                      !.phase = "dispatched"],
      queue |-> queue] : c \in DeleteAsData(r.ctx)}

\* dispatch(req): auto_ptr<Data> data; data->libev->runAsync(bind(callback,
\* *req)); return 0, the auto_ptr deleting data.
dispatch(r, i, queue) ==
    {[r |-> [r EXCEPT !.ctx = c,
                      !.handedBy = Append(@, "dispatch"),
                      !.phase = "dispatched"],
      queue |-> runAsync(queue, i)] : c \in DeleteAsData(r.ctx)}

ThreadStart == dpc = "start" /\ EnterLoop

\* cond.wait(l) returns after a notify_one().
Wake == dpc = "waiting" /\ signalled /\ EnterLoop

\* cond.wait(l) returns without one.
SpuriousWake == dpc = "waiting" /\ ~signalled /\ EnterLoop

\* eio_poll() takes the next finished request and calls its finish hook.
PollDrain ==
    /\ dpc = "polling" /\ resQueue # <<>>
    /\ \E d \in dispatch(reqs[Head(resQueue)], Head(resQueue), loopQueue) :
         /\ reqs' = [reqs EXCEPT ![Head(resQueue)] = d.r]
         /\ loopQueue' = d.queue
    /\ resQueue' = Tail(resQueue)
    /\ owed' = FALSE
    /\ UNCHANGED asked
    /\ UNCHANGED <<shouldPoll, quit, thr, dpc, signalled, spc, cycles, syncher>>
    /\ UNCHANGED <<apiVars, wireVars, genVars, restVars>>

\* eio_poll() returns when nothing is left to drain.
PollReturn ==
    /\ dpc = "polling" /\ resQueue = <<>>
    /\ dpc' = "relock"
    /\ UNCHANGED <<shouldPoll, quit, thr, signalled, spc, reqs, resQueue, loopQueue,
                   owed, asked, cycles, syncher>>
    /\ UNCHANGED <<apiVars, wireVars, genVars, restVars>>

\* l.lock() after eio_poll(), and the loop test again.
Relock == dpc = "relock" /\ EnterLoop

\* The reactor thread runs the next callback it was handed.
RunCallback ==
    /\ loopQueue # <<>>
    /\ reqs' = [reqs EXCEPT ![Head(loopQueue)].callbackOn = Append(@, "reactor"),
                            ![Head(loopQueue)].phase = "called"]
    /\ loopQueue' = Tail(loopQueue)
    /\ UNCHANGED <<shouldPoll, quit, thr, dpc, signalled, spc, resQueue, owed, asked, cycles,
                   syncher>>
    /\ UNCHANGED <<apiVars, wireVars, genVars, restVars>>

NextEio ==
    \/ MultiLibeioInit
    \/ ShutdownBegin
    \/ ShutdownJoin
    \/ SubmitOpen
    \/ SubmitRead
    \/ SubmitWrite
    \/ SubmitCustom
    \/ Work
    \/ ThreadStart
    \/ Wake
    \/ SpuriousWake
    \/ PollDrain
    \/ PollReturn
    \/ Relock
    \/ RunCallback

SpecEio == InitEio /\ [][NextEio]_vars

\* Every thread that can take a step eventually does.
SpecEioFair ==
    /\ SpecEio
    /\ WF_vars(ThreadStart)
    /\ WF_vars(Wake)
    /\ WF_vars(PollDrain)
    /\ WF_vars(PollReturn)
    /\ WF_vars(Relock)
    /\ WF_vars(Work)
    /\ WF_vars(RunCallback)
    /\ WF_vars(ShutdownJoin)

(***************************************************************************)
(* MultiLibeio::waitUntilIdle(), called by a thread of its own at any      *)
(* moment after the first init().  The three counters of the engine are    *)
(* read one after the other, each read a step; idle.saw is what the reads  *)
(* of this round of the loop returned.                                     *)
(***************************************************************************)
\* eio_nready(): the requests no worker has taken yet.
eio_nready == Cardinality({i \in 1..Len(reqs) : reqs[i].phase = "queued"})

\* eio_npending(): the requests finished and not yet taken by a poll.
eio_npending == Len(resQueue)

\* eio_nreqs(): the requests in flight, from submission to the finish hook.
eio_nreqs == eio_nready + eio_npending

\* The counters in the order the loop test reads them.
Counters == <<eio_nreqs, eio_nready, eio_npending>>

\* The loop test with && for ||: it ends the loop at the first zero.
LoopTestAnyZero(k, v) ==
    IF v = 0 THEN "returned" ELSE IF k = Len(Counters) THEN "sleeping" ELSE "reading"

\* while (eio_nreqs() != 0 || eio_nready() != 0 || eio_npending() != 0)
\* after its k-th operand was read as v: the body, the next operand, or the
\* end of the loop.
LoopTest(k, v) ==
    IF v # 0 THEN "sleeping" ELSE IF k = Len(Counters) THEN "returned" ELSE "reading"

\* waitUntilIdle() is called.
WaitUntilIdleCall ==
    /\ cycles > 0
    /\ idle.pc \in {"none", "returned"}
    /\ idle' = [pc |-> "reading", saw |-> <<>>]
    /\ UNCHANGED <<apiVars, wireVars, eioVars, genVars>>
    /\ UNCHANGED besidesIdle

\* The next operand of the loop test is read.
WaitUntilIdleRead ==
    /\ idle.pc = "reading"
    /\ \E v \in {Counters[Len(idle.saw) + 1]} :
         idle' = [pc |-> LoopTest(Len(idle.saw) + 1, v),
                  saw |-> IF LoopTest(Len(idle.saw) + 1, v) = "sleeping"
                          THEN <<>> ELSE Append(idle.saw, v)]
    /\ UNCHANGED <<apiVars, wireVars, eioVars, genVars>>
    /\ UNCHANGED besidesIdle

\* syscalls::usleep(10000) returns.
WaitUntilIdleSleep ==
    /\ idle.pc = "sleeping"
    /\ idle' = [pc |-> "reading", saw |-> <<>>]
    /\ UNCHANGED <<apiVars, wireVars, eioVars, genVars>>
    /\ UNCHANGED besidesIdle

NextIdle ==
    \/ NextEio
    \/ WaitUntilIdleCall
    \/ WaitUntilIdleRead
    \/ WaitUntilIdleSleep

SpecIdle == InitEio /\ [][NextIdle]_vars

(***************************************************************************)
(* MultiLibeio.cpp built with PREAD_AND_PWRITE_ARE_NOT_THREADSAFE (on       *)
(* __APPLE__): read() and write() are custom requests whose work function  *)
(* is lockedPread or lockedPwrite.  The engine runs each accepted request  *)
(* on one of its worker threads, any number of them at once.               *)
(***************************************************************************)
MaxOps == 2

MaxWorkers == 2

Workers == 1..MaxWorkers

InitLocked ==
    /\ rd = New("uint16")
    /\ offered = <<>>
    /\ total = 0
    /\ last = "none"
    /\ body = FALSE
    /\ wire = <<>>
    /\ sent = <<>>
    /\ made = <<>>
    /\ recvBuf = <<>>
    /\ bufConsumed = 0
    /\ delivered = <<>>
    /\ NoDispatcher
    /\ NoGenerator
    /\ NoLockedCalls
    /\ NoCall
    /\ NoWaiter
    /\ NoStorage
    /\ NoTimer
    /\ NoWritev

\* MultiLibeio::read / MultiLibeio::write: return custom(boost::bind(
\* lockedPread or lockedPwrite, fd, buf, length, offset, _1), pri, callback)
LockedSubmit(kind) ==
    /\ Len(ops) < MaxOps
    /\ \E result \in {"NULL", "request"} :
         ops' = Append(ops, custom(kind, result))
    /\ ioResult' = Append(ioResult, <<>>)
    /\ UNCHANGED preadWriteLock
    /\ UNCHANGED <<apiVars, wireVars, eioVars, genVars>>
    /\ UNCHANGED besidesLock

ReadLocked == LockedSubmit("read")

WriteLocked == LockedSubmit("write")

\* The request a worker thread is running, if any.
Running(w) ==
    {i \in 1..Len(ops) : ops[i].phase \in {"locking", "inside"} /\ ops[i].workOn = <<w>>}

\* executeWrapper(req) on a worker thread with nothing to do:
\* data->execute(req) enters lockedPread or lockedPwrite.
ExecuteWrapper ==
    /\ \E w \in Workers, i \in 1..Len(ops) :
         /\ Running(w) = {}
         /\ ops[i].phase = "queued"
         /\ ops' = [ops EXCEPT ![i].phase = "locking", ![i].workOn = Append(@, w)]
    /\ UNCHANGED <<ioResult, preadWriteLock>>
    /\ UNCHANGED <<apiVars, wireVars, eioVars, genVars>>
    /\ UNCHANGED besidesLock

\* lock_guard<boost::mutex>(preadWriteLock): a temporary, locked and
\* unlocked before the call.
LockGuardTemporary(w) == <<>>

\* lock_guard<boost::mutex> l(preadWriteLock): the mutex is held by the
\* worker for the rest of the function.
LockGuard(w) == <<w>>

\* lockedPread / lockedPwrite up to the call: the worker takes the mutex and
\* is in pread() or pwrite().
LockedEnter ==
    /\ preadWriteLock = <<>>
    /\ \E i \in 1..Len(ops) :
         /\ ops[i].phase = "locking"
         /\ preadWriteLock' = LockGuard(ops[i].workOn[1])
         /\ ops' = [ops EXCEPT ![i].phase = "inside"]
    /\ UNCHANGED ioResult
    /\ UNCHANGED <<apiVars, wireVars, eioVars, genVars>>
    /\ UNCHANGED besidesLock

\* pread() or pwrite() returns -1 or a count (0 here): req->result = ...; the
\* destructor of l unlocks the mutex.
LockedReturn ==
    /\ \E i \in 1..Len(ops) :
         /\ ops[i].phase = "inside"
         /\ \E n \in {-1, 0} : ioResult' = [ioResult EXCEPT ![i] = <<n>>]
         /\ ops' = [ops EXCEPT ![i].phase = "finished"]
    /\ preadWriteLock' = <<>>
    /\ UNCHANGED <<apiVars, wireVars, eioVars, genVars>>
    /\ UNCHANGED besidesLock

NextLocked ==
    \/ ReadLocked
    \/ WriteLocked
    \/ ExecuteWrapper
    \/ LockedEnter
    \/ LockedReturn

SpecLocked == InitLocked /\ [][NextLocked]_vars

\* Every worker that can take a step eventually does, and pread() and
\* pwrite() return.
SpecLockedFair ==
    /\ SpecLocked
    /\ WF_vars(ExecuteWrapper)
    /\ WF_vars(LockedEnter)
    /\ WF_vars(LockedReturn)

(***************************************************************************)
(* passenger_native_support.c: writev, writev2 and writev3.  A component   *)
(* is a string, known here by its place k among all components and its     *)
(* length; an iovec is the part of string id that starts at base and has   *)
(* len bytes.  Lengths and counts of bytes are [hi, lo] as above: long,     *)
(* size_t and ssize_t have 64 bits, unsigned int and int 32.  The           *)
(* descriptor records the parts it accepted, in order.                      *)
(***************************************************************************)
\* IOV_MAX, a value of the platform (sysconf(_SC_IOV_MAX) on Linux).
IOV_MAX == 2

MaxComponents == 3

SizeSub(a, b) ==
    [hi |-> a.hi - b.hi - (IF a.lo < b.lo THEN 1 ELSE 0),
     lo |-> (a.lo - b.lo + HalfWord) % HalfWord]

\* The lengths of the strings: 0, 1, 2 and 2^31.
Lengths == {Size(0), Size(1), Size(2), [hi |-> HalfWord \div 2, lo |-> 0]}

\* The conversion of an unsigned int to int.
ToInt32(a) == IF a.hi >= HalfWord \div 2 THEN [hi |-> a.hi - HalfWord, lo |-> a.lo] ELSE a

\* INT2NUM(v): the Ruby number of v converted to int.
INT2NUM(v) == ToInt32(v)

IoVector(k, len) == [id |-> k, base |-> Size(0), len |-> len]

RECURSIVE SumOfLens(_)
SumOfLens(vecs) ==
    IF vecs = <<>> THEN Size(0) ELSE SizeAdd(Head(vecs).len, SumOfLens(Tail(vecs)))

\* The number of groups and the count of each, as allocated.
NGroups(total_components) ==
    IF total_components % IOV_MAX = 0 THEN total_components \div IOV_MAX
    ELSE total_components \div IOV_MAX + 1

GroupCount(total_components, g) ==
    IF total_components % IOV_MAX = 0 \/ g < NGroups(total_components)
    THEN IOV_MAX
    ELSE total_components % IOV_MAX

\* The distribution of the components among the groups: the loop fills
\* group after group, each up to its count.
GroupOf(components, g) ==
    [io_vectors |->
        [v \in 1..GroupCount(Len(components), g) |->
            IoVector((g - 1) * IOV_MAX + v, components[(g - 1) * IOV_MAX + v])],
     total_size |->
        SumOfLens([v \in 1..GroupCount(Len(components), g) |->
            IoVector((g - 1) * IOV_MAX + v, components[(g - 1) * IOV_MAX + v])])]

Groups(components) ==
    [g \in 1..NGroups(Len(components)) |-> GroupOf(components, g)]

\* unsigned int total_size, total_size += (unsigned int) RSTRING_LEN(str)
RECURSIVE TotalSize(_)
TotalSize(components) ==
    IF components = <<>> THEN Size(0)
    ELSE ToUint32(SizeAdd(TotalSize(SubSeq(components, 1, Len(components) - 1)),
                          ToUint32(components[Len(components)])))

\* total_size > ssize_max: an unsigned int is never above SSIZE_MAX, which
\* is 2^63 - 1.
ExceedsSsizeMax(total_size) == FALSE

\* The truncated vector with iov_base left where it was.
TruncateKeepBase(vec, left) == [vec EXCEPT !.len = left]

\* current_vec->iov_base += current_vec->iov_len - (counter - bytes_written);
\* current_vec->iov_len = counter - bytes_written
Truncate(vec, left) ==
    [vec EXCEPT !.base = SizeAdd(@, SizeSub(vec.len, left)), !.len = left]

\* update_group_written_info: i counts from 1, counter is the sum before
\* vector i.
RECURSIVE UpdateLoop(_, _, _, _)
UpdateLoop(group, bytes_written, i, counter) ==
    IF i > Len(group.io_vectors)
    THEN [group |-> group, error |-> "RuntimeError"]
    ELSE IF SizeAdd(counter, group.io_vectors[i].len) = bytes_written
    THEN [group |-> [io_vectors |-> Drop(group.io_vectors, i),
                     total_size |-> SizeSub(group.total_size, bytes_written)],
          error |-> "none"]
    ELSE IF SizeGreater(SizeAdd(counter, group.io_vectors[i].len), bytes_written)
    THEN [group |->
            [io_vectors |->
                <<Truncate(group.io_vectors[i],
                           SizeSub(SizeAdd(counter, group.io_vectors[i].len),
                                   bytes_written))>>
                    \o Drop(group.io_vectors, i),
             total_size |-> SizeSub(group.total_size, bytes_written)],
          error |-> "none"]
    ELSE UpdateLoop(group, bytes_written, i + 1,
                    SizeAdd(counter, group.io_vectors[i].len))

update_group_written_info(group, bytes_written) ==
    UpdateLoop(group, bytes_written, 1, Size(0))

\* What the descriptor has accepted once one more part follows: nothing
\* new for an empty part, and a part that goes on where the last one ended
\* makes that one longer.
Accept(accepted, part) ==
    IF part.len = Size(0) THEN accepted
    ELSE IF /\ accepted # <<>>
            /\ accepted[Len(accepted)].id = part.id
            /\ SizeAdd(accepted[Len(accepted)].base, accepted[Len(accepted)].len)
                  = part.base
    THEN [accepted EXCEPT ![Len(accepted)].len = SizeAdd(@, part.len)]
    ELSE Append(accepted, part)

\* writev(fd, iov, iovcnt) returning n: the descriptor accepts the first n
\* bytes of the vectors.
RECURSIVE Accepts(_, _, _)
Accepts(accepted, vecs, n) ==
    IF vecs = <<>> THEN accepted
    ELSE IF SizeGreater(Head(vecs).len, n)
    THEN Accept(accepted, [Head(vecs) EXCEPT !.len = n])
    ELSE Accepts(Accept(accepted, Head(vecs)), Tail(vecs), SizeSub(n, Head(vecs).len))

\* The sums of the lengths of the first vectors.
Boundaries(vecs) == {SumOfLens(SubSeq(vecs, 1, j)) : j \in 0..Len(vecs)}

\* The counts a writev() of a group may return short of everything: 0, each
\* boundary between vectors and one byte before it.  A call writes less
\* than 2^31 bytes.
ShortCounts(group) ==
    {n \in Boundaries(group.io_vectors)
             \cup {SizeSub(b, Size(1)) : b \in Boundaries(group.io_vectors) \ {Size(0)}} :
        /\ SizeGreater(group.total_size, n)
        /\ n.hi < HalfWord \div 2}

\* The arrays of components a caller passes: count arrays, of sizes[a]
\* components each, the lengths being lens in the order of the arrays.
Before(sizes, a) ==
    LET RECURSIVE Sum(_)
        Sum(k) == IF k = 0 THEN 0 ELSE Sum(k - 1) + sizes[k]
    IN  Sum(a - 1)

Arrays(sizes, lens) ==
    [a \in 1..Len(sizes) |->
        [j \in 1..sizes[a] |-> lens[Before(sizes, a) + j]]]

\* f_writev, f_writev2 or f_writev3 is about to call f_generic_writev.
Called(array_of_components) ==
    [pc |-> "called", array_of_components |-> array_of_components,
     groups |-> <<>>, i |-> 0, total_size |-> Size(0), accepted |-> <<>>,
     error |-> "none", result |-> Size(0), waited |-> FALSE, short |-> FALSE]

InitWritev ==
    /\ rd = New("uint16")
    /\ offered = <<>>
    /\ total = 0
    /\ last = "none"
    /\ body = FALSE
    /\ wire = <<>>
    /\ sent = <<>>
    /\ made = <<>>
    /\ recvBuf = <<>>
    /\ bufConsumed = 0
    /\ delivered = <<>>
    /\ NoDispatcher
    /\ NoGenerator
    /\ NoLockedCalls
    /\ NoCall
    /\ NoWaiter
    /\ NoStorage
    /\ NoTimer
    /\ \E count \in 1..3 :
         \E sizes \in [1..count -> 0..MaxComponents] :
           /\ Before(sizes, count + 1) <= MaxComponents
           /\ \E lens \in [1..Before(sizes, count + 1) -> Lengths] :
                writev = Called(Arrays(sizes, lens))

\* f_generic_writev up to the loop that writes: the components are counted
\* and, unless there is none, put into groups and their sizes added up.
\* With no component it evaluates NUM2INT(0), where 0 is no Fixnum: the
\* conversion raises.
WritevPrepare ==
    /\ writev.pc = "called"
    /\ writev' =
         IF Flatten(writev.array_of_components) = <<>>
         THEN [writev EXCEPT !.pc = "raised", !.error = "TypeError"]
         ELSE IF ExceedsSsizeMax(TotalSize(Flatten(writev.array_of_components)))
         THEN [writev EXCEPT !.pc = "raised", !.error = "ArgumentError"]
         ELSE [writev EXCEPT !.pc = "writing",
                             !.groups = Groups(Flatten(writev.array_of_components)),
                             !.total_size =
                                 TotalSize(Flatten(writev.array_of_components)),
                             !.i = 1]
    /\ UNCHANGED <<apiVars, wireVars, eioVars, genVars>>
    /\ UNCHANGED besidesWritev

\* writev() returns -1 and rb_io_wait_writable() says to try again.
WritevAgain ==
    /\ writev.pc = "writing"
    /\ writev' = [writev EXCEPT !.waited = TRUE]
    /\ UNCHANGED <<apiVars, wireVars, eioVars, genVars>>
    /\ UNCHANGED besidesWritev

\* writev() returns -1 with another error: rb_sys_fail("writev()").
WritevFails ==
    /\ writev.pc = "writing"
    /\ writev' = [writev EXCEPT !.pc = "raised", !.error = "SystemCallError"]
    /\ UNCHANGED <<apiVars, wireVars, eioVars, genVars>>
    /\ UNCHANGED besidesWritev

\* writev() returns less than the group's total_size.
WritevShort ==
    /\ writev.pc = "writing"
    /\ \E ret \in ShortCounts(writev.groups[writev.i]) :
         \E u \in {update_group_written_info(writev.groups[writev.i], ret)} :
           writev' =
             [writev EXCEPT
                !.accepted = Accepts(@, writev.groups[writev.i].io_vectors, ret),
                !.groups[writev.i] = u.group,
                !.short = TRUE,
                !.error = u.error,
                !.pc = IF u.error = "none" THEN "writing" ELSE "raised"]
    /\ UNCHANGED <<apiVars, wireVars, eioVars, genVars>>
    /\ UNCHANGED besidesWritev

\* writev() returns the group's total_size: done = 1, and after the last
\* group return INT2NUM(total_size).
WritevAll ==
    /\ writev.pc = "writing"
    /\ writev.groups[writev.i].total_size.hi < HalfWord \div 2
    /\ writev' =
         [writev EXCEPT
            !.accepted = Accepts(@, writev.groups[writev.i].io_vectors,
                                 writev.groups[writev.i].total_size),
            !.i = @ + 1,
            !.result = IF writev.i = Len(writev.groups)
                       THEN INT2NUM(writev.total_size) ELSE @,
            !.pc = IF writev.i = Len(writev.groups) THEN "returned" ELSE "writing"]
    /\ UNCHANGED <<apiVars, wireVars, eioVars, genVars>>
    /\ UNCHANGED besidesWritev

NextWritev ==
    \/ WritevPrepare
    \/ WritevAgain
    \/ WritevFails
    \/ WritevShort
    \/ WritevAll

SpecWritev == InitWritev /\ [][NextWritev]_vars

(***************************************************************************)
(* passenger_native_support.c: DeadlineTimer.  channel is the pipe, a      *)
(* queue of bytes; start(t) writes the int t (4 bytes, lowest first),      *)
(* stop writes the byte 'x', cleanup closes the write end and joins the    *)
(* thread.  Time passes in ticks of a second while the thread is in        *)
(* select().  A read, write or select that fails with another error than   *)
(* EINTR is left out; one that fails with EINTR is tried again.            *)
(***************************************************************************)
MaxTimeout == 2

MaxStarts == 2

SizeofInt == 4

\* The int v as its bytes in memory.
IntBytes(v) == HostStore(v, SizeofInt)

\* read(fd, buf, count) on a pipe that holds bytes: the bytes it returns.
PipeRead(chan, count) == Take(chan, count)

\* The object's memory after read() stored the bytes got at its start.
Stored(mem, got) == [i \in 1..Len(mem) |-> IF i <= Len(got) THEN got[i] ELSE mem[i]]

\* The values an int may be found to hold: that of its bytes, or any if
\* some byte was never written.
IntValues(mem) ==
    IF \E i \in 1..Len(mem) : mem[i] = -1
    THEN 0..MaxTimeout
    ELSE {mem[1] + 256 * mem[2] + 65536 * mem[3] + 65536 * 256 * mem[4]}

\* deadline_timer_new: the pipe is made and the thread started.  user says
\* what the user of the timer is at; timeout and tv are the thread's
\* variables; starts, stops and reads are history: the timeouts of the
\* start calls, the number of stop calls and the number of timeouts read.
InitTimer ==
    /\ rd = New("uint16")
    /\ offered = <<>>
    /\ total = 0
    /\ last = "none"
    /\ body = FALSE
    /\ wire = <<>>
    /\ sent = <<>>
    /\ made = <<>>
    /\ recvBuf = <<>>
    /\ bufConsumed = 0
    /\ delivered = <<>>
    /\ NoDispatcher
    /\ NoGenerator
    /\ NoLockedCalls
    /\ NoCall
    /\ NoWaiter
    /\ NoStorage
    /\ NoWritev
    /\ dt = [pc |-> "read", channel |-> <<>>, writeEnd |-> "open", user |-> "idle",
             timeout |-> Indeterminate(SizeofInt), tv |-> 0, elapsed |-> 0,
             starts |-> <<>>, stops |-> 0, reads |-> 0]

\* The process runs: it was not killed.
Alive == dt.pc # "killed"

\* deadline_timer_start: write(dt->channel[1], &timeout_value, sizeof(timeout_value))
TimerStart ==
    /\ Alive /\ dt.user = "idle"
    /\ Len(dt.starts) < MaxStarts
    /\ \E t \in 0..MaxTimeout :
         dt' = [dt EXCEPT !.channel = @ \o IntBytes(t),
                          !.starts = Append(@, t),
                          !.user = "started"]
    /\ UNCHANGED <<apiVars, wireVars, eioVars, genVars>>
    /\ UNCHANGED besidesTimer

\* deadline_timer_stop: write(dt->channel[1], "x", 1)
TimerStop ==
    /\ Alive /\ dt.user = "started"
    /\ dt' = [dt EXCEPT !.channel = @ \o <<120>>,
                        !.stops = @ + 1,
                        !.user = "idle"]
    /\ UNCHANGED <<apiVars, wireVars, eioVars, genVars>>
    /\ UNCHANGED besidesTimer

\* deadline_timer_cleanup up to pthread_join(): close(dt->channel[1])
TimerCleanup ==
    /\ Alive /\ dt.user = "idle"
    /\ dt' = [dt EXCEPT !.writeEnd = "closed", !.user = "joining"]
    /\ UNCHANGED <<apiVars, wireVars, eioVars, genVars>>
    /\ UNCHANGED besidesTimer

\* pthread_join() returns; close(dt->channel[0]); dt->channel[0] = -1
TimerJoin ==
    /\ dt.user = "joining" /\ dt.pc = "exited"
    /\ dt' = [dt EXCEPT !.user = "joined"]
    /\ UNCHANGED <<apiVars, wireVars, eioVars, genVars>>
    /\ UNCHANGED besidesTimer

\* The thread after select() said readable, without the read of one byte.
DiscardedNone(chan) == chan

\* read(dt->channel[0], &tmp, 1): one byte is read and discarded.
Discarded(chan) == Drop(chan, 1)

\* The thread at the top of its loop: read(dt->channel[0], &timeout,
\* sizeof(timeout)) returns bytes, and the thread calls select() with tv.tv_sec
\* = timeout; or it returns 0 at the end of the pipe and the thread returns.
TimerRead ==
    /\ dt.pc = "read"
    /\ \/ /\ dt.channel # <<>>
          /\ \E t \in IntValues(Stored(dt.timeout, PipeRead(dt.channel, SizeofInt))) :
               dt' = [dt EXCEPT !.channel = Drop(@, SizeofInt),
                                !.timeout = Stored(@, PipeRead(dt.channel, SizeofInt)),
                                !.tv = t,
                                !.elapsed = 0,
                                !.reads = @ + 1,
                                !.pc = "select"]
       \/ /\ dt.channel = <<>> /\ dt.writeEnd = "closed"
          /\ dt' = [dt EXCEPT !.pc = "exited"]
    /\ UNCHANGED <<apiVars, wireVars, eioVars, genVars>>
    /\ UNCHANGED besidesTimer

\* A second passes while the thread is in select().
Tick ==
    /\ Alive /\ dt.pc = "select"
    /\ dt.elapsed < dt.tv /\ dt.elapsed <= MaxTimeout
    /\ dt' = [dt EXCEPT !.elapsed = @ + 1]
    /\ UNCHANGED <<apiVars, wireVars, eioVars, genVars>>
    /\ UNCHANGED besidesTimer

\* select() returns 0: tv has run out and nothing is to be read.  The
\* thread sends SIGKILL to the process.
TimerKill ==
    /\ dt.pc = "select"
    /\ dt.channel = <<>> /\ dt.writeEnd = "open"
    /\ dt.elapsed >= dt.tv
    /\ dt' = [dt EXCEPT !.pc = "killed"]
    /\ UNCHANGED <<apiVars, wireVars, eioVars, genVars>>
    /\ UNCHANGED besidesTimer

\* select() returns 1: a byte, or the end of the pipe, is to be read.  The
\* thread reads one byte and goes back to the top of its loop.
TimerReadable ==
    /\ dt.pc = "select"
    /\ dt.channel # <<>> \/ dt.writeEnd = "closed"
    /\ dt' = [dt EXCEPT !.channel = Discarded(@), !.pc = "read"]
    /\ UNCHANGED <<apiVars, wireVars, eioVars, genVars>>
    /\ UNCHANGED besidesTimer

NextTimer ==
    \/ TimerStart
    \/ TimerStop
    \/ TimerCleanup
    \/ TimerJoin
    \/ TimerRead
    \/ Tick
    \/ TimerKill
    \/ TimerReadable

SpecTimer == InitTimer /\ [][NextTimer]_vars

\* The timer thread and the joining thread take the steps they can take.
SpecTimerFair ==
    /\ SpecTimer
    /\ WF_vars(TimerRead)
    /\ WF_vars(TimerReadable)
    /\ WF_vars(TimerJoin)

(***************************************************************************)
(* ScalarMessage with the memory behind its buffer.  store.cells is the    *)
(* block the string owns, one cell for each byte of its capacity;          *)
(* store.held is the set of cells that have held a payload byte other      *)
(* than 0 since the block was allocated; store.leaked says that a block    *)
(* was given back to the allocator with such a byte still in it.           *)
(* History: store.after is the last call ("new", "feed", "plain" for       *)
(* reset(false), "secure" for reset(true)), store.unwiped says that a      *)
(* reset(false) was made on a buffer that held bytes.  The caller feeds    *)
(* framed messages of up to MaxPayload bytes in chunks; offered is what    *)
(* is left of the message being fed, its payload bytes chosen when they    *)
(* are fed.  total, last and body are not kept.                            *)
(***************************************************************************)
MaxPayload == 3

\* The cells with the bytes of buf stored from the start.
Overlay(cells, buf) == [i \in 1..Len(cells) |-> IF i <= Len(buf) THEN buf[i] ELSE cells[i]]

\* The cells in which a byte other than 0 is.
NonZero(cells) == {i \in 1..Len(cells) : cells[i] # 0}

\* buffer.reserve(n) on the empty buffer when capacity() < n: a new block of
\* n cells, which have held no payload, and the old block given back as it
\* is.
reserve(st, n) ==
    IF Len(st.cells) < n
    THEN [st EXCEPT !.cells = [i \in 1..n |-> 0],
                    !.held = {},
                    !.leaked = @ \/ NonZero(st.cells) # {}]
    ELSE st

\* buffer.append(current, toConsume), the buffer being buf afterwards.
append(st, buf) ==
    [st EXCEPT !.cells = Overlay(@, buf),
               !.held = @ \cup NonZero(buf)]

\* What one feed() call does to the memory: nothing unless it appended to
\* the buffer; r is the reader before the call and r2 after it.
FeedStore(st, r, r2) ==
    IF r2.buffer = r.buffer
    THEN [st EXCEPT !.after = "feed"]
    ELSE [append(reserve(st, IntValue(r2.headerReader)), r2.buffer) EXCEPT !.after = "feed"]

\* MemZeroGuard guard(buffer), at the end of its scope: the size() bytes of
\* the string are overwritten with zeros.
MemZeroGuard(cells, size) == [i \in 1..Len(cells) |-> IF i <= size THEN 0 ELSE cells[i]]

\* reset() with the guard living to the end of the function: it wipes the
\* buffer that clear() has emptied.
ZeroedAfterClear(cells, size, zeroBuffer) ==
    IF zeroBuffer THEN MemZeroGuard(cells, 0) ELSE cells

\* if (zeroBuffer) { MemZeroGuard guard(buffer); } ahead of buffer.clear()
Zeroed(cells, size, zeroBuffer) ==
    IF zeroBuffer THEN MemZeroGuard(cells, size) ELSE cells

\* What reset(zeroBuffer) does to the memory; clear() leaves it alone.
ResetStore(st, r, zeroBuffer) ==
    [st EXCEPT !.cells = Zeroed(@, Len(r.buffer), zeroBuffer),
               !.unwiped = @ \/ (~zeroBuffer /\ r.buffer # <<>>),
               !.after = IF zeroBuffer THEN "secure" ELSE "plain"]

\* A ScalarMessage that accepts MaxPayload bytes; its buffer owns no memory.
InitWipe ==
    /\ rd = ScalarNew(MaxPayload)
    /\ offered = <<>>
    /\ total = 0
    /\ last = "none"
    /\ body = FALSE
    /\ wire = <<>>
    /\ sent = <<>>
    /\ made = <<>>
    /\ recvBuf = <<>>
    /\ bufConsumed = 0
    /\ delivered = <<>>
    /\ NoDispatcher
    /\ NoGenerator
    /\ NoLockedCalls
    /\ NoCall
    /\ NoWaiter
    /\ NoTimer
    /\ NoWritev
    /\ store = [cells |-> <<>>, held |-> {}, leaked |-> FALSE, unwiped |-> FALSE,
                after |-> "new"]

\* The bytes a payload is made of: what matters is whether a byte is 0.
PayloadBytes == {0, 1}

\* A payload byte the caller has yet to choose.
Unchosen == -1

\* The number of payload bytes in the chunk; they are at its end.
Blanks(chunk) == Cardinality({i \in 1..Len(chunk) : chunk[i] = Unchosen})

\* The chunk with its payload bytes chosen as filler has them.
Chosen(chunk, filler) ==
    [i \in 1..Len(chunk) |->
        IF chunk[i] = Unchosen THEN filler[i - (Len(chunk) - Len(filler))] ELSE chunk[i]]

\* The caller has a message to feed: a payload of 0..MaxPayload bytes
\* behind its length, or the length MaxPayload + 1 alone.
Framed ==
    /\ offered = <<>>
    /\ rd.state = "READING_HEADER" /\ rd.headerReader.consumed = 0
    /\ \E n \in 0..(MaxPayload + 1) :
         offered' = BigEndianBytes(n, SizeofUint32)
                      \o [i \in 1..(IF n > MaxPayload THEN 0 ELSE n) |-> Unchosen]
    /\ UNCHANGED <<rd, total, last, body>>
    /\ UNCHANGED wireVars
    /\ UNCHANGED <<eioVars, genVars>>
    /\ UNCHANGED besidesStore
    /\ UNCHANGED store

\* feed() with the next 1..MaxChunk bytes of the message.
FeedFramed ==
    /\ offered # <<>>
    /\ \E n \in 1..Min(MaxChunk, Len(offered)) :
         \E filler \in SeqsOfLen(PayloadBytes, Blanks(Take(offered, n))) :
         \E f \in {ScalarFeed(rd, Chosen(Take(offered, n), filler))} :
           /\ rd' = f.r
           /\ offered' = IF ScalarDone(f.r) THEN <<>> ELSE Drop(offered, f.n)
           /\ store' = FeedStore(store, rd, f.r)
    /\ UNCHANGED <<total, last, body>>
    /\ UNCHANGED wireVars
    /\ UNCHANGED <<eioVars, genVars>>
    /\ UNCHANGED besidesStore

\* reset(zeroBuffer), at any moment; what is left of the message is dropped.
ResetFramed(zeroBuffer) ==
    /\ store.after # "new"
    /\ rd' = ScalarReset(rd, zeroBuffer)
    /\ store' = ResetStore(store, rd, zeroBuffer)
    /\ offered' = <<>>
    /\ UNCHANGED <<total, last, body>>
    /\ UNCHANGED wireVars
    /\ UNCHANGED <<eioVars, genVars>>
    /\ UNCHANGED besidesStore

SecureReset == ResetFramed(TRUE)

PlainReset == ResetFramed(FALSE)

NextWipe ==
    \/ Framed
    \/ FeedFramed
    \/ SecureReset
    \/ PlainReset

SpecWipe == InitWipe /\ [][NextWipe]_vars

(***************************************************************************)
(* feed() of ArrayMessage and ScalarMessage with each iteration of its     *)
(* loop a step.  The caller feeds framed messages of 0..MaxPayload bytes   *)
(* (or, to a reader with a ceiling, the length MaxPayload + 1 alone, which *)
(* is over any ceiling of 1..MaxCeiling) in chunks of 1..MaxChunk bytes,   *)
(* and resets a reader that is done without error.  offered is what is     *)
(* left of the message, its payload bytes chosen when they are fed.        *)
(* call.wasDone is done() at the call; call.rounds counts the iterations.  *)
(***************************************************************************)
\* The body of the loop: the reader after it and the bytes it consumed.
LoopBody(r, current) ==
    IF r.kind = "array" THEN ArrayStep(r, current) ELSE ScalarStep(r, current)

\* while (consumed < size && !done())
LoopContinue(r, consumed, size) ==
    IF r.kind = "array" THEN ArrayContinue(r, consumed, size)
                        ELSE ScalarContinue(r, consumed, size)

InitLoop ==
    /\ \E maxSize \in 0..MaxCeiling :
         rd \in {ArraySetMaxSize(ArrayNew, maxSize), ScalarNew(maxSize)}
    /\ offered = <<>>
    /\ total = 0
    /\ last = "none"
    /\ body = FALSE
    /\ wire = <<>>
    /\ sent = <<>>
    /\ made = <<>>
    /\ recvBuf = <<>>
    /\ bufConsumed = 0
    /\ delivered = <<>>
    /\ NoDispatcher
    /\ NoGenerator
    /\ NoLockedCalls
    /\ NoWaiter
    /\ NoStorage
    /\ NoTimer
    /\ NoWritev
    /\ call = [pc |-> "returned", data |-> <<>>, consumed |-> 0, rounds |-> 0,
               wasDone |-> FALSE]

\* The caller has a message for a reader that is at its start.
LoopFramed ==
    /\ call.pc = "returned" /\ offered = <<>>
    /\ rd.state = "READING_HEADER" /\ rd.headerReader.consumed = 0
    /\ \E n \in 0..(MaxPayload + 1) :
         /\ n > MaxPayload => rd.maxSize > 0
         /\ offered' = BigEndianBytes(n, Width(rd.kind))
                      \o [i \in 1..(IF n > MaxPayload THEN 0 ELSE n) |-> Unchosen]
    /\ UNCHANGED <<rd, total, last, body>>
    /\ UNCHANGED wireVars
    /\ UNCHANGED <<eioVars, genVars>>
    /\ UNCHANGED besidesLoop
    /\ UNCHANGED call

\* feed(data, size) is called with the next 1..MaxChunk bytes of the
\* message: size_t consumed = 0.
LoopCall ==
    /\ call.pc = "returned" /\ offered # <<>>
    /\ \E n \in 1..Min(MaxChunk, Len(offered)) :
         \E filler \in SeqsOfLen(PayloadBytes, Blanks(Take(offered, n))) :
           call' = [pc |-> "loop", data |-> Chosen(Take(offered, n), filler),
                    consumed |-> 0, rounds |-> 0, wasDone |-> Done(rd)]
    /\ UNCHANGED apiVars
    /\ UNCHANGED wireVars
    /\ UNCHANGED <<eioVars, genVars>>
    /\ UNCHANGED besidesLoop

\* One iteration of the loop.
LoopRound ==
    /\ call.pc = "loop"
    /\ LoopContinue(rd, call.consumed, Len(call.data))
    /\ call.rounds <= Len(call.data)
    /\ \E s \in {LoopBody(rd, Drop(call.data, call.consumed))} :
         /\ rd' = s.r
         /\ call' = [call EXCEPT !.consumed = @ + s.n, !.rounds = @ + 1]
    /\ UNCHANGED <<offered, total, last, body>>
    /\ UNCHANGED wireVars
    /\ UNCHANGED <<eioVars, genVars>>
    /\ UNCHANGED besidesLoop

\* The loop ends: return consumed.  The caller drops what was consumed
\* from the message, and the rest of it when the reader reports an error.
LoopReturn ==
    /\ call.pc = "loop"
    /\ ~LoopContinue(rd, call.consumed, Len(call.data))
    /\ call' = [call EXCEPT !.pc = "returned"]
    /\ offered' = IF HasError(rd) THEN <<>> ELSE Drop(offered, call.consumed)
    /\ total' = total + call.consumed
    /\ UNCHANGED <<rd, last, body>>
    /\ UNCHANGED wireVars
    /\ UNCHANGED <<eioVars, genVars>>
    /\ UNCHANGED besidesLoop

\* reset() of a reader that is done: the next message can follow.
LoopReset ==
    /\ call.pc = "returned" /\ Done(rd) /\ offered = <<>>
    /\ rd' = CallReset(rd, FALSE)
    /\ total' = 0
    /\ UNCHANGED <<offered, last, body>>
    /\ UNCHANGED wireVars
    /\ UNCHANGED <<eioVars, genVars>>
    /\ UNCHANGED besidesLoop
    /\ UNCHANGED call

NextLoop ==
    \/ LoopFramed
    \/ LoopCall
    \/ LoopRound
    \/ LoopReturn
    \/ LoopReset

SpecLoop == InitLoop /\ [][NextLoop]_vars

\* A thread in the loop goes on: the scheduler runs it.
SpecLoopFair ==
    /\ SpecLoop
    /\ WF_vars(LoopRound)
    /\ WF_vars(LoopReturn)

(***************************************************************************)
(* Properties of the message objects under any sequence of calls.          *)
(***************************************************************************)
\* The wire format's reading of a header: most significant byte first.
RECURSIVE BigEndian(_)
BigEndian(bytes) ==
    IF bytes = <<>> THEN 0
    ELSE 256 * BigEndian(SubSeq(bytes, 1, Len(bytes) - 1)) + bytes[Len(bytes)]

HeaderWidth == Width(rd.kind)

\* The header bytes of the message being read, once all were consumed.
HeaderBytes(bytes) == Take(bytes, HeaderWidth)

\* This step is a feed() call that was passed at least one byte.
FeedStep == Len(offered') > Len(offered)

\* This step is the feed() call in which the last header byte is consumed.
HeaderCompletes == FeedStep /\ total < HeaderWidth /\ total' >= HeaderWidth

\* C5: once an object reports done(), every further feed() returns 0 and
\* leaves done(), hasError(), errorCode() and value() as they were.
C5_FeedAfterDone ==
    [][(Done(rd) /\ FeedStep) =>
          /\ total' = total
          /\ Done(rd')
          /\ HasError(rd') = HasError(rd)
          /\ rd'.error = rd.error
          /\ Value(rd') = Value(rd)]_vars

C5_Witness ==
    /\ rd.kind = "scalar" /\ rd.state = "DONE" /\ rd.result # <<>>
    /\ last = "afterDone"

\* C6: a feed() call returns between 0 and size, and the bytes consumed since
\* the last reset never exceed the header width plus the length the header
\* declares.
C6_TotalBound ==
    /\ 0 <= total
    /\ total <= Len(offered)
    /\ (total > HeaderWidth =>
            /\ IsMessage(rd)
            /\ total <= HeaderWidth + BigEndian(HeaderBytes(offered)))

C7_ZeroLengthIsEmpty ==
    (/\ IsMessage(rd)
     /\ total >= HeaderWidth
     /\ BigEndian(HeaderBytes(offered)) = 0)
        => (rd.state = "DONE" /\ ~body /\ Value(rd) = <<>>)

\* C8: Error(TOO_LARGE) is entered exactly by the feed() that completes a
\* header whose value exceeds a ceiling > 0 in force at that moment; nothing
\* but reset() leaves it.
C8_CeilingIff ==
    [][IsMessage(rd) =>
          /\ (rd.state # "ERROR" /\ rd'.state = "ERROR")
                <=> (/\ HeaderCompletes
                     /\ rd.maxSize > 0
                     /\ BigEndian(HeaderBytes(offered')) > rd.maxSize)
          /\ rd'.state = "ERROR" => rd'.error = "TOO_LARGE"
          /\ (rd.state = "ERROR" /\ rd'.state # "ERROR") => offered' = <<>>]_vars

C8_Witness ==
    /\ rd.kind = "scalar" /\ rd.state = "DONE" /\ rd.maxSize = 1
    /\ BigEndian(HeaderBytes(offered)) = 1
    /\ last = "all"

\* C9: the feed() that completes a header over the ceiling consumes the
\* header bytes it was still missing and nothing else: the buffer and the
\* result are as before.
C9_ErrorConsumesHeaderOnly ==
    [][(/\ IsMessage(rd)
        /\ HeaderCompletes
        /\ rd.maxSize > 0
        /\ BigEndian(HeaderBytes(offered')) > rd.maxSize)
          => /\ total' = HeaderWidth
             /\ total' - total = HeaderWidth - rd.headerReader.consumed
             /\ rd'.buffer = rd.buffer
             /\ rd'.result = rd.result
             /\ rd'.src = rd.src]_vars

C9_Witness ==
    /\ rd.kind = "scalar" /\ rd.state = "ERROR"
    /\ last = "short"
    /\ total = HeaderWidth /\ Len(offered) > HeaderWidth

\* A reader constructed and configured as r is.
FreshAs(r) ==
    IF r.kind = "array"
    THEN ArrayReserve(ArraySetMaxSize(ArrayNew, r.maxSize), r.toReserve)
    ELSE ScalarNew(r.maxSize)

\* The inputs a reader is tried on: a header and up to MaxTail more bytes.
ReuseInputs ==
    [kind \in {"array", "scalar"} |->
        UNION {SeqsOfLen(Byte, Width(kind) + n) : n \in 0..MaxTail}]

\* What a caller sees of a feed() call: the count returned, done(),
\* hasError() and, when done without error, value().
Seen(f, memory) ==
    [n |-> f.n, done |-> Done(f.r), hasError |-> HasError(f.r),
     value |-> IF Done(f.r) /\ ~HasError(f.r) THEN Value(Read(f.r, memory))
                                              ELSE <<>>]

SeenAll(f) == {Seen(f, memory) : memory \in Memories(f.r)}

\* data passed to r in two feed() calls, cut after k bytes: what is seen of
\* the second.
FedInTwo(r, data, k) ==
    SeenAll(CallFeed(CallFeed(r, Take(data, k)).r, Drop(data, k)))

\* r answers every input, however cut, as a fresh reader configured alike.
ActsAsFresh(r) ==
    \A data \in ReuseInputs[r.kind] : \A k \in 0..Len(data) :
        FedInTwo(r, data, k) = FedInTwo(FreshAs(r), data, k)

\* C11: reset(), from any state, leaves the reader in READING_HEADER with
\* the header codec and the buffer cleared and the maximum and the reserve
\* hint as they were, and the reader then answers every input with the
\* consumed counts, done(), hasError() and value() of a fresh reader
\* configured alike.
C11_ResetEqualsFresh ==
    [][(IsMessage(rd) /\ Reset) =>
          /\ rd'.state = "READING_HEADER"
          /\ rd'.headerReader.consumed = 0
          /\ rd'.buffer = <<>>
          /\ rd'.maxSize = rd.maxSize
          /\ rd'.toReserve = rd.toReserve
          /\ ActsAsFresh(rd')]_vars

\* The bytes the integer codec has consumed since construction or reset().
Consumed == rd.headerReader.consumed

\* C27: for Uint16Message and Uint32Message consumed stays in 0..width and
\* done() holds exactly when consumed is the width; feed(data, size) returns
\* min(size, width - consumed) and adds it to consumed; reset() sets
\* consumed to 0.
C27_CodecInvariant ==
    /\ [](~IsMessage(rd) => /\ Consumed \in 0..HeaderWidth
                            /\ Done(rd) <=> Consumed = HeaderWidth)
    /\ [][(~IsMessage(rd) /\ Feed) =>
             /\ total' - total = Min(Len(offered') - Len(offered),
                                     HeaderWidth - Consumed)
             /\ Consumed' = Consumed + (total' - total)]_vars
    /\ [][(~IsMessage(rd) /\ Reset) => Consumed' = 0]_vars

\* A Uint16Message was passed more bytes than it still needed.
C27_Witness ==
    /\ rd.kind = "uint16" /\ Consumed = SizeofUint16
    /\ last = "short" /\ Len(offered) = 3

\* C28: once done(), value() is the big-endian reading of the width bytes
\* consumed, however they were split over feed() calls; it stays so under
\* further feed() calls; generate() of that value gives those bytes back,
\* and they give the value back when fed to a fresh codec.
C28_CodecValue ==
    /\ []((~IsMessage(rd) /\ Done(rd)) =>
            /\ Value(rd) = BigEndian(HeaderBytes(offered))
            /\ IntGenerate(HeaderWidth, Size(Value(rd))) = HeaderBytes(offered)
            /\ IntValue(IntFeed(HeaderWidth, IntNew(HeaderWidth),
                                IntGenerate(HeaderWidth, Size(Value(rd)))).hr)
                  = Value(rd))
    /\ [][(~IsMessage(rd) /\ Done(rd) /\ Feed) => Value(rd') = Value(rd)]_vars

\* A Uint32Message holds 256 and was fed again after it was done.
C28_Witness ==
    /\ rd.kind = "uint32" /\ Done(rd)
    /\ Value(rd) = 256
    /\ last = "afterDone"

\* The bytes passed to the feed() call this step is.
Passed == Drop(offered', Len(offered))

\* The changes of state in the loop of one feed() call, state by state.
Changes(from, path) ==
    {<<(<<from>> \o path)[k], path[k]>> : k \in 1..Len(path)}
        \ {<<s, s>> : s \in {"READING_HEADER", "READING_BODY", "DONE", "ERROR"}}

\* The changes of state the format allows, r the reader after the call and
\* consumed the bytes it has consumed since reset().
Legal(change, r, consumed) ==
    \/ /\ change = <<"READING_HEADER", "READING_BODY">>
       /\ IntValue(r.headerReader) > 0
       /\ ~(r.maxSize > 0 /\ IntValue(r.headerReader) > r.maxSize)
    \/ /\ change = <<"READING_HEADER", "DONE">>
       /\ IntValue(r.headerReader) = 0
    \/ /\ change = <<"READING_HEADER", "ERROR">>
       /\ r.maxSize > 0 /\ IntValue(r.headerReader) > r.maxSize
    \/ /\ change = <<"READING_BODY", "DONE">>
       /\ consumed = Width(r.kind) + IntValue(r.headerReader)

\* C25: the state of an ArrayMessage or ScalarMessage changes only from
\* READING_HEADER to READING_BODY, DONE (header 0) or ERROR (header over
\* the ceiling), from READING_BODY to DONE (body complete), and to
\* READING_HEADER by reset(); ERROR is entered only at header completion,
\* DONE and ERROR are left only by reset(), and the default branch of the
\* switch is never reached.
C25_StateMachine ==
    [][IsMessage(rd) =>
         /\ rd'.state \in {"READING_HEADER", "READING_BODY", "DONE", "ERROR"}
         /\ (rd'.state = "ERROR" /\ rd.state # "ERROR") => HeaderCompletes
         /\ IF last' = "none" /\ Reset
            THEN rd'.state = "READING_HEADER"
            ELSE IF FeedWith(Passed)
            THEN /\ \E f \in {CallFeed(rd, Passed)} :
                      \A c \in Changes(rd.state, f.path) : Legal(c, rd', total')
                 /\ Done(rd) => rd'.state = rd.state
            ELSE rd'.state = rd.state]_vars

\* One feed() call took a reader from READING_HEADER through READING_BODY
\* to DONE, and it was then fed again.
C25_Witness ==
    /\ IsMessage(rd) /\ rd.state = "DONE" /\ rd.src = "input"
    /\ body /\ last = "afterDone"

(***************************************************************************)
(* Properties of a reader on a connection.                                 *)
(***************************************************************************)
\* The reader as constructed and given the ceiling now set.
Fresh ==
    IF rd.kind = "array" THEN ArraySetMaxSize(ArrayNew, rd.maxSize)
                         ELSE ScalarNew(rd.maxSize)

\* The reader is on the first message of the connection.
OnFirst == delivered = <<>>

\* C1: a fresh reader fed a message stream in chunks is in the state (Done,
\* Error and its code, or still reading), with the value() and the total
\* consumed, that a fresh reader gets to when the same bytes are passed to
\* one feed() call.
C1_FragmentationIndependence ==
    OnFirst =>
        \E one \in {CallFeed(Fresh, offered)} :
            /\ one.r.state = rd.state
            /\ one.n = total
            /\ Done(rd) => Value(one.r) = Value(rd)
            /\ HasError(rd) => one.r.error = rd.error

C1_Witness ==
    /\ OnFirst /\ rd.kind = "array"
    /\ rd.state = "DONE" /\ rd.src = "buffer" /\ rd.headerReader.consumed = 2
    /\ Len(rd.result) = 2
    /\ CallFeed(Fresh, offered).r.src = "input"

\* No item holds a NUL byte.
NulFree(items) ==
    \A i \in 1..Len(items) : \A j \in 1..Len(items[i]) : items[i][j] # 0

\* The first message was made by ArrayMessage::generate from items that
\* satisfy Allowed, and the reader has no ceiling.
ArrayRoundTrip(Allowed(_)) ==
    (/\ rd.kind = "array" /\ OnFirst /\ rd.maxSize = 0
     /\ sent # <<>> /\ made[1].by = "generate" /\ Allowed(made[1].value))
        => /\ Done(rd) <=> total = Len(sent[1])
           /\ Done(rd) => ~HasError(rd) /\ Value(rd) = made[1].value

AnyItems(items) == TRUE

\* C2 as stated: for every sequence of items, a fresh ArrayMessage fed the
\* views of generate() is done exactly when it has consumed every byte, has
\* no error, and value() is the item sequence.
C2_ArrayRoundTripAnyItems == ArrayRoundTrip(AnyItems)

\* C2, amended: the same for every sequence of items none of which holds a
\* NUL byte.
C2_ArrayRoundTrip == ArrayRoundTrip(NulFree)

C2_Witness ==
    /\ rd.kind = "array" /\ OnFirst /\ rd.maxSize = 0
    /\ sent # <<>> /\ made[1].by = "generate" /\ NulFree(made[1].value)
    /\ Len(made[1].value) = 2 /\ made[1].value[1] # <<>>
    /\ rd.state = "DONE" /\ total = Len(sent[1])

\* C3: a fresh ScalarMessage without ceiling, fed the views of either
\* ScalarMessage::generate, is done exactly when it has consumed every byte,
\* has no error, and value() is the payload, the fragments in order.
C3_ScalarRoundTrip ==
    (/\ rd.kind = "scalar" /\ OnFirst /\ rd.maxSize = 0 /\ sent # <<>>)
        => /\ Done(rd) <=> total = Len(sent[1])
           /\ Done(rd) => ~HasError(rd) /\ Value(rd) = made[1].value

C3_Witness ==
    /\ rd.kind = "scalar" /\ OnFirst /\ rd.maxSize = 0
    /\ sent # <<>> /\ made[1].by = "fragments" /\ Len(made[1].value) = 2
    /\ rd.state = "DONE" /\ total = Len(sent[1]) /\ rd.src = "buffer"

\* The NUL-terminated fields of an array body, read off the positions of its
\* NUL bytes: field k lies between the NUL before the k-th NUL and the k-th.
NulsUpTo(bytes, p) == {q \in 1..p : bytes[q] = 0}

FieldEnd(bytes, k) ==
    CHOOSE p \in 1..Len(bytes) :
        bytes[p] = 0 /\ Cardinality(NulsUpTo(bytes, p)) = k

FieldStart(bytes, k) == IF k = 1 THEN 1 ELSE FieldEnd(bytes, k - 1) + 1

Fields(bytes) ==
    [k \in 1..Cardinality(NulsUpTo(bytes, Len(bytes))) |->
        SubSeq(bytes, FieldStart(bytes, k), FieldEnd(bytes, k) - 1)]

\* What a message on the wire encodes: the payload, or the fields.
Encoded(msg) ==
    IF rd.kind = "scalar" THEN Drop(msg, SizeofUint32)
                          ELSE Fields(Drop(msg, SizeofUint16))

\* The bytes of the first k messages written.
RECURSIVE SentBytes(_)
SentBytes(k) == IF k = 0 THEN 0 ELSE SentBytes(k - 1) + Len(sent[k])

\* C4: under the documented loop the values delivered are the messages
\* written, in order, and the bytes consumed are those of the messages
\* delivered and of the part read of the next: none skipped, none twice.
C4_StreamDecoding ==
    /\ Len(delivered) <= Len(sent)
    /\ \A i \in 1..Len(delivered) : delivered[i] = Encoded(sent[i])
    /\ SentBytes(Len(delivered)) + total + (Len(recvBuf) - bufConsumed) + Len(wire)
          = SentBytes(Len(sent))

\* C10: an ArrayMessage that is done with a body of n > 0 bytes has as
\* value() the NUL-terminated fields of the body, in order, without what
\* follows the last NUL, on the zero-copy and on the owned-buffer path.
C10_ArrayBodySplitting ==
    (/\ rd.kind = "array" /\ rd.state = "DONE"
     /\ BigEndian(HeaderBytes(offered)) > 0)
        => /\ rd.src \in {"input", "buffer"}
           /\ Value(rd) = Fields(SubSeq(offered, HeaderWidth + 1,
                                        HeaderWidth + BigEndian(HeaderBytes(offered))))

C10_Witness ==
    /\ rd.kind = "array" /\ rd.state = "DONE" /\ rd.src = "buffer"
    /\ BigEndian(HeaderBytes(offered)) = 3
    /\ SubSeq(offered, 3, 5) = <<1, 0, 1>>
    /\ Value(rd) = <<<<1>>>>

C10_WitnessZeroCopy ==
    /\ rd.kind = "array" /\ rd.state = "DONE" /\ rd.src = "input"
    /\ BigEndian(HeaderBytes(offered)) = 3
    /\ SubSeq(offered, 3, 5) = <<0, 0, 1>>
    /\ Value(rd) = <<<<>>, <<>>>>

\* The length the completed header declares.
Target(r) == IntValue(r.headerReader)

\* The bytes of this feed() call that follow the header.
BodyData ==
    IF rd.state = "READING_BODY" THEN Passed
    ELSE Drop(Passed, HeaderWidth - total)

\* This feed() call runs the READING_BODY case: on a reader that was in
\* READING_BODY, or after it completed a header that opens a body, and with
\* at least one byte left.
BodyPhase ==
    /\ LoopFeed
    /\ \/ rd.state = "READING_BODY"
       \/ rd.state = "READING_HEADER" /\ HeaderCompletes
            /\ Target(rd') > 0 /\ ~HasError(rd')
    /\ BodyData # <<>>

\* value() is what a view of bytes yields.
Viewing(r, bytes) ==
    r.result = IF r.kind = "array" THEN parseBody(bytes) ELSE bytes

Clean == \A i \in store.held : store.cells[i] = 0

C34_FeedProgress ==
    /\ [][LoopRound =>
            /\ call.consumed < Len(call.data) /\ ~Done(rd)
            /\ call'.consumed > call.consumed \/ Done(rd')]_vars
    /\ [](call.pc # "none" =>
            call.rounds <= Len(call.data) /\ call.consumed <= Len(call.data))
    /\ [][LoopReturn =>
            /\ call.consumed = Len(call.data) \/ Done(rd)
            /\ ~call.wasDone => call.consumed >= 1]_vars
    /\ [](call.pc = "loop" /\ call.consumed < Len(call.data) /\ ~Done(rd)
            => ENABLED LoopRound)
    /\ [](call.pc = "returned" /\ offered = <<>> /\ total > 0 => Done(rd))
    /\ []<>(call.pc # "loop")

\* One call ran two iterations, the header's and the body's, on a reader
\* that had buffered nothing, and left it done without error.
C34_Witness ==
    /\ call.pc = "returned" /\ call.rounds = 2 /\ Len(call.data) = 3
    /\ rd.state = "DONE" /\ rd.buffer = <<>> /\ rd.result # <<>>

(***************************************************************************)
(* Properties of the dispatcher.                                           *)
(***************************************************************************)
AllOn(threads, t) == \A k \in 1..Len(threads) : threads[k] = t

\* C12: a completion callback runs on the reactor thread only; the dispatch
\* thread only hands it to runAsync(); the work of a request, the custom
\* work function included, runs on a worker thread.
C12_CallbacksOnReactor ==
    \A i \in 1..Len(reqs) :
        /\ AllOn(reqs[i].callbackOn, "reactor")
        /\ AllOn(reqs[i].handedBy, "dispatch")
        /\ AllOn(reqs[i].workOn, "worker")
        /\ reqs[i].phase = "called" => reqs[i].callbackOn # <<>>

C12_Witness ==
    \E i \in 1..Len(reqs) :
        /\ reqs[i].kind = "custom" /\ reqs[i].phase = "called"
        /\ reqs[i].workOn = <<"worker">>
        /\ reqs[i].handedBy = <<"dispatch">>
        /\ reqs[i].callbackOn = <<"reactor">>

Drained(r) == r.phase \in {"dispatched", "called"}

Reclaimed(ctx) ==
    /\ ctx.memory = "freed"
    /\ ctx.members = "destroyed"
    /\ ctx.execute \in {"none", "destroyed"}

\* C13: for every accepted submission the work runs once, the callback is
\* handed to the reactor once and run at most once, and the context is
\* deleted once, by the completion hook and not before, never used after
\* that, and wholly reclaimed once the completion has been drained.
C13_ExactlyOnce ==
    \A i \in 1..Len(reqs) :
        reqs[i].returned = "request" =>
            /\ Len(reqs[i].workOn) = (IF reqs[i].phase = "queued" THEN 0 ELSE 1)
            /\ Len(reqs[i].handedBy) = (IF Drained(reqs[i]) THEN 1 ELSE 0)
            /\ Len(reqs[i].callbackOn) = (IF reqs[i].phase = "called" THEN 1 ELSE 0)
            /\ reqs[i].ctx.deletes = (IF Drained(reqs[i]) THEN 1 ELSE 0)
            /\ reqs[i].ctx.members # "usedAfterFree"
            /\ Drained(reqs[i]) => Reclaimed(reqs[i].ctx)
            /\ ~Drained(reqs[i]) => reqs[i].ctx.memory = "allocated"

\* This step is a submission that the engine refuses.
RefusedStep ==
    /\ Len(reqs') = Len(reqs) + 1
    /\ reqs'[Len(reqs')].phase = "refused"

\* C14: a submission the engine refuses returns NULL, its context has been
\* deleted once and wholly, neither its work nor its callback ever runs,
\* and shouldPoll, quit and thr are as before the call.
C14_RefusalIsClean ==
    [][/\ RefusedStep => /\ reqs'[Len(reqs')].returned = "NULL"
                         /\ UNCHANGED <<shouldPoll, quit, thr>>
       /\ \A i \in 1..Len(reqs') :
            (reqs'[i].phase = "refused" \/ reqs'[i].returned = "NULL") =>
                /\ reqs'[i].phase = "refused" /\ reqs'[i].returned = "NULL"
                /\ reqs'[i].ctx.deletes = 1
                /\ Reclaimed(reqs'[i].ctx)
                /\ reqs'[i].workOn = <<>>
                /\ reqs'[i].handedBy = <<>>
                /\ reqs'[i].callbackOn = <<>>]_vars

C14_Witness ==
    /\ Len(reqs) = 2
    /\ reqs[1].kind = "custom" /\ reqs[1].returned = "NULL"
    /\ reqs[2].kind = "open" /\ reqs[2].phase = "called"

\* Shutdown has been requested, or there is no dispatch thread.
Stopping == quit \/ thr = "NULL"

\* An accepted request that dispatch() has not handed to the reactor yet.
Unhanded(i) ==
    /\ i <= Len(reqs)
    /\ reqs[i].returned = "request"
    /\ reqs[i].handedBy = <<>>

\* C15: while no shutdown is requested, a call of the wake hook is always
\* followed by a poll step of the dispatch thread, and an accepted request
\* is always handed to the reactor: neither stays outstanding for ever.
C15_NoLostWakeup ==
    /\ []<>(~owed \/ Stopping)
    /\ \A i \in 1..MaxReqs : []<>(~Unhanded(i) \/ Stopping)

\* The hook has fired while the dispatch thread was inside eio_poll().
C15_Witness ==
    /\ dpc = "polling" /\ owed /\ ~Stopping
    /\ \E i \in 1..Len(reqs) : Drained(reqs[i])

\* C16: shutdown() returns, wherever the dispatch thread was; then there is
\* no dispatch thread, and without a dispatch thread there is no poll step.
C16_ShutdownTerminates ==
    /\ (spc = "joining") ~> (spc = "idle" /\ thr = "NULL" /\ dpc = "none")
    /\ [](thr = "NULL" => dpc = "none")
    /\ [][dpc = "none" => Len(resQueue') >= Len(resQueue)]_vars

\* shutdown() has returned after it found the dispatch thread in eio_poll().
C16_Witness ==
    /\ spc = "idle" /\ thr = "NULL" /\ cycles = 1
    /\ resQueue # <<>>
    /\ \E i \in 1..Len(reqs) : Drained(reqs[i])

\* Every submission made was refused or has had its callback run.
AllSettled ==
    /\ \A i \in 1..Len(reqs) : reqs[i].phase \in {"refused", "called"}
    /\ resQueue = <<>> /\ loopQueue = <<>>

\* C17: after shutdown(), with every submission completed, the flags and
\* the thread handle are as before the first init(), and there is a
\* dispatch thread exactly from init() to the return of shutdown().
C17_CyclesAlike ==
    /\ (thr = "NULL" /\ spc = "idle" /\ AllSettled)
            => (~shouldPoll /\ ~quit /\ dpc = "none")
    /\ thr # "NULL" <=> dpc # "none"

\* This step hands the callback of request i to the reactor.
HandsOver(i) == Len(reqs'[i].handedBy) > Len(reqs[i].handedBy)

\* This step frees the context of request i, which the engine had accepted.
Frees(i) ==
    /\ reqs[i].returned = "request"
    /\ reqs[i].ctx.memory = "allocated" /\ reqs'[i].ctx.memory = "freed"

\* C29: the completion hook of a request (handing the callback to the
\* reactor and freeing the context) is one step of the dispatch thread
\* inside its eio_poll(), for a request a worker has finished, and no step
\* runs the hooks of two requests.
C29_HookOnDispatchThread ==
    /\ [](\A i \in 1..Len(reqs) :
            /\ AllOn(reqs[i].handedBy, "dispatch")
            /\ Len(reqs[i].handedBy) <= 1)
    /\ [][\A i \in 1..Len(reqs) :
            (HandsOver(i) \/ Frees(i)) =>
                /\ HandsOver(i) /\ Frees(i)
                /\ reqs'[i].handedBy = <<"dispatch">>
                /\ reqs[i].workOn = <<"worker">>
                /\ thr # "NULL" /\ dpc = "polling" /\ dpc' = "polling"
                /\ \A j \in 1..Len(reqs) :
                      (HandsOver(j) \/ Frees(j)) => j = i]_vars

\* The hook of one request has run in a poll step in which a second
\* finished request still waits to be drained.
C29_Witness ==
    /\ dpc = "polling" /\ resQueue # <<>>
    /\ \E i \in 1..Len(reqs) :
         /\ reqs[i].phase = "dispatched"
         /\ reqs[i].handedBy = <<"dispatch">>
         /\ reqs[i].ctx.memory = "freed"

\* A request waits for a worker thread.
SomeQueued == \E i \in 1..Len(reqs) : reqs[i].phase = "queued"

\* C30: the dispatch thread does not hold syncher while it is in
\* eio_poll(): it releases it on the way in and takes it again after the
\* return; so the wake hook called by a worker during a poll and a
\* shutdown() called during a poll get the mutex, and no thread that is to
\* take syncher is ever kept from it.
C30_PollWithoutLock ==
    /\ [](dpc = "polling" => syncher = "free")
    /\ []((dpc = "polling" /\ SomeQueued) => ENABLED Work)
    /\ []((dpc = "polling" /\ thr # "NULL" /\ spc = "idle") => ENABLED ShutdownBegin)
    /\ [](/\ SomeQueued => ENABLED Work
          /\ (thr # "NULL" /\ spc = "idle") => ENABLED ShutdownBegin
          /\ dpc = "start" => ENABLED ThreadStart
          /\ dpc = "waiting" => ENABLED (Wake \/ SpuriousWake)
          /\ dpc = "relock" => ENABLED Relock)
    /\ [][/\ (dpc # "polling" /\ dpc' = "polling") => syncher' = "free"
          /\ (dpc = "polling" /\ dpc' # "polling") =>
                (dpc' = "relock" /\ syncher' = "free")
          /\ Relock => syncher = "free"]_vars

\* The dispatch thread is in eio_poll(), shutdown() has set quit and is in
\* join(), and a worker has called the wake hook for a finished request.
C30_Witness ==
    /\ dpc = "polling" /\ spc = "joining" /\ quit
    /\ resQueue # <<>> /\ owed /\ syncher = "free"

\* C31: the dispatch thread begins a poll only when the wake hook has been
\* called since it began the last one, and when eio_poll() has returned
\* with no such call and no shutdown asked for it waits on cond; so there
\* are never more polls than calls of the wake hook.
C31_PollsOnlyWhenAsked ==
    /\ [][(dpc' = "polling" /\ dpc # "polling") => asked]_vars
    /\ [][(Relock /\ ~asked /\ ~quit) => dpc' = "waiting"]_vars

\* This step is eio_poll() reporting the completion at the head of the
\* engine's queue.
Reports == resQueue # <<>> /\ resQueue' = Tail(resQueue)

\* C32: the step in which the poll reports a completion hands its callback
\* to the reactor behind every callback handed over before and not yet
\* run; nothing else is added to the reactor's queue and callbacks leave it
\* from the front only; so callbacks are handed over, and run, in the order
\* of the reports, which is the order in which the workers finished and
\* not that of submission.
C32_CallbackOrder ==
    /\ [][Reports => loopQueue' = Append(loopQueue, Head(resQueue))]_vars
    /\ [][loopQueue' # loopQueue =>
            \/ Reports /\ dpc = "polling"
            \/ loopQueue' = Tail(loopQueue)]_vars
    /\ [][(resQueue' # resQueue /\ ~Reports) =>
            \E i \in 1..Len(reqs) : /\ reqs[i].phase = "queued"
                                    /\ resQueue' = Append(resQueue, i)]_vars
    /\ [](\A j, k \in 1..Len(loopQueue) : loopQueue[j] = loopQueue[k] => j = k)

\* The second request submitted was reported first, and both callbacks
\* wait for the reactor in the order of the reports.
C32_Witness == loopQueue = <<2, 1>> /\ resQueue = <<>>

\* C33: waitUntilIdle() returns only when the three counters were read as
\* zero one after the other in one round of its loop, and the engine was
\* idle when the first was read; and no step of it changes shouldPoll,
\* quit, thr or anything else of the dispatcher: it runs no poll and no
\* finish hook.
C33_WaitUntilIdleObserves ==
    /\ [](idle.pc = "returned" => idle.saw = <<0, 0, 0>>)
    /\ [][(idle'.pc = "returned" /\ idle.pc # "returned") =>
            /\ idle.saw = <<0, 0>>
            /\ eio_npending = 0]_vars
    /\ [][(Len(idle'.saw) = 1 /\ idle.saw = <<>>) =>
            eio_nreqs = 0 /\ eio_nready = 0 /\ eio_npending = 0]_vars
    /\ [][idle' # idle =>
            UNCHANGED <<shouldPoll, quit, thr, dpc, signalled, spc, reqs, resQueue,
                        loopQueue, syncher>>]_vars

\* waitUntilIdle() has returned after two requests were submitted, worked
\* on and taken by a poll.
C33_Witness ==
    /\ idle.pc = "returned"
    /\ Len(reqs) = 2
    /\ \A i \in 1..Len(reqs) : reqs[i].phase \in {"dispatched", "called"}

\* The requests whose worker is in pread() or pwrite().
Inside == {i \in 1..Len(ops) : ops[i].phase = "inside"}

\* C22: where pread/pwrite are not threadsafe, at most one worker is in
\* pread() or pwrite() at any time, and it holds preadWriteLock; the mutex
\* is released by the step in which the call returns; and every accepted
\* read or write eventually finishes.
C22_SerializedCalls ==
    /\ [](Cardinality(Inside) <= 1)
    /\ [](\A i \in Inside : preadWriteLock = ops[i].workOn)
    /\ [](Inside = {} => preadWriteLock = <<>>)
    /\ [][\A i \in 1..Len(ops) :
            (ops[i].phase = "inside" /\ ops'[i].phase # "inside") =>
                /\ ops'[i].phase = "finished"
                /\ ioResult'[i] # <<>>
                /\ preadWriteLock' = <<>>]_vars
    /\ \A i \in 1..MaxOps :
          []<>(\/ i > Len(ops)
               \/ ops[i].returned = "NULL"
               \/ ops[i].phase = "finished")

\* One worker is in pwrite() and holds the mutex, after the call of
\* another has returned and released it.
C22_Witness ==
    /\ \E i \in 1..Len(ops) : ops[i].kind = "read" /\ ops[i].phase = "finished"
    /\ \E i \in 1..Len(ops) :
         /\ ops[i].kind = "write" /\ ops[i].phase = "inside"
         /\ preadWriteLock = ops[i].workOn

(***************************************************************************)
(* Properties of writev.                                                   *)
(***************************************************************************)
\* All components in the order given, as the descriptor records them when
\* it accepts each whole and once.
AllComponents ==
    Accepts(<<>>,
            [k \in 1..Len(Flatten(writev.array_of_components)) |->
                IoVector(k, Flatten(writev.array_of_components)[k])],
            SumOfLens([k \in 1..Len(Flatten(writev.array_of_components)) |->
                IoVector(k, Flatten(writev.array_of_components)[k])]))

\* The number of bytes of all components.
AllBytes ==
    SumOfLens([k \in 1..Len(Flatten(writev.array_of_components)) |->
                IoVector(k, Flatten(writev.array_of_components)[k])])

\* The vectors of the group being written and of the groups after it.
VectorsLeft ==
    Flatten([g \in 1..Len(writev.groups) - writev.i + 1 |->
                writev.groups[writev.i + g - 1].io_vectors])

\* C23: when f_generic_writev returns, the descriptor has accepted the
\* components of all arrays in order, each byte once, and the value
\* returned is their total size; and while it writes, what was accepted
\* followed by the vectors left is all components, and total_size of the
\* group being written is the size of its vectors.
C23_WritesEverything ==
    /\ writev.pc = "returned" =>
          /\ writev.accepted = AllComponents
          /\ writev.result = AllBytes
    /\ writev.pc = "writing" =>
          /\ Accepts(writev.accepted, VectorsLeft, SumOfLens(VectorsLeft))
                = AllComponents
          /\ writev.groups[writev.i].total_size
                = SumOfLens(writev.groups[writev.i].io_vectors)

\* The same for calls whose components have less than 2^31 bytes in all.
C23_BelowIntMax ==
    AllBytes.hi < HalfWord \div 2 => C23_WritesEverything

\* A call with three components in two groups returned after a retry and
\* a short write that ended inside a component.
C23_Witness ==
    /\ writev.pc = "returned" /\ writev.short /\ writev.waited
    /\ Len(writev.groups) = 2
    /\ \E g \in 1..Len(writev.groups) :
         /\ writev.groups[g].io_vectors # <<>>
         /\ writev.groups[g].io_vectors[1].base # Size(0)

(***************************************************************************)
(* Properties of DeadlineTimer.                                            *)
(***************************************************************************)
\* C24: the thread is in select() only for a timeout it has read, that of
\* the start call it has come to; it kills only when that timeout has run
\* out with nothing on the channel, and then that start is the last one
\* and its stop has not been written; and once cleanup has closed the
\* write end the thread exits and is joined.
C24_DeadlineTimer ==
    /\ [](dt.pc \in {"select", "killed"} =>
            /\ dt.reads \in 1..Len(dt.starts)
            /\ dt.tv = dt.starts[dt.reads])
    /\ [](dt.pc = "killed" =>
            /\ dt.reads = Len(dt.starts)
            /\ dt.stops < Len(dt.starts)
            /\ dt.elapsed >= dt.starts[Len(dt.starts)]
            /\ dt.channel = <<>>
            /\ dt.user = "started")
    /\ [][(dt.stops' = Len(dt.starts') /\ dt.pc # "killed") => dt.pc' # "killed"]_vars
    /\ [](dt.user \in {"joining", "joined"} => dt.pc # "killed")
    /\ [](dt.user = "joined" => dt.pc = "exited" /\ dt.writeEnd = "closed")
    /\ []<>(dt.user # "joining")

\* The process was killed on the second start, the first having been
\* stopped before its timeout of 2 seconds ran out.
C24_Witness ==
    /\ dt.pc = "killed" /\ dt.starts = <<2, 1>> /\ dt.stops = 1

(***************************************************************************)
(* Properties of the generators.                                           *)
(***************************************************************************)
\* The sum over the items of length + 1, as a number.
BodyLength(args) ==
    LET RECURSIVE Sum(_)
        Sum(k) == IF k = 0 THEN Size(0)
                  ELSE SizeAdd(Sum(k - 1), SizeAdd(args[k].size, Size(1)))
    IN  Sum(Len(args))

\* The sum of the fragment lengths, as a number.
PayloadLength(data) ==
    LET RECURSIVE Sum(_)
        Sum(k) == IF k = 0 THEN Size(0) ELSE SizeAdd(Sum(k - 1), data[k].size)
    IN  Sum(Len(data))

\* A number below 2^32 in 4 bytes, most significant first.
BigEndianOf(v) == <<v.hi \div 256, v.hi % 256, v.lo \div 256, v.lo % 256>>

NothingWritten(w) ==
    /\ gen.headerBuf = BlankHeader(w)
    /\ \A k \in 1..Len(gen.out) : gen.out[k] = NoView

\* C18: ArrayMessage::generate throws exactly when outCount < 2N+1 or the
\* body length exceeds 65535, and then has written neither the header
\* buffer nor any slot.
C18_ArrayGenerateFails ==
    (gen.op = "array" /\ gen.returned) =>
        /\ gen.error # "none" <=>
              \/ Len(gen.out) < 2 * Len(gen.args) + 1
              \/ SizeGreater(BodyLength(gen.args), Size(65535))
        /\ gen.error # "none" => NothingWritten(SizeofUint16)

\* C19: when ArrayMessage::generate succeeds, slot 0 views the header
\* buffer, which holds the body length in 2 bytes big-endian, each item
\* follows in order with a one-byte NUL view after it, and the slots from
\* 2N+1 on are not written.
C19_ArrayGenerateLayout ==
    (gen.op = "array" /\ gen.returned /\ gen.error = "none") =>
        /\ Len(gen.out) >= 2 * Len(gen.args) + 1
        /\ gen.out[1] = StaticString("headerBuf", 0, Size(2))
        /\ Len(gen.headerBuf) = 2
        /\ Size(256 * gen.headerBuf[1] + gen.headerBuf[2]) = BodyLength(gen.args)
        /\ \A i \in 1..Len(gen.args) :
              /\ gen.out[2 * i] = gen.args[i]
              /\ gen.out[2 * i + 1] = StaticString("NUL", 0, Size(1))
        /\ \A k \in 2 * Len(gen.args) + 2..Len(gen.out) : gen.out[k] = NoView

\* The payload length modulo 2^32.
Mod32(v) == [hi |-> v.hi % 65536, lo |-> v.lo]

\* C20: the fragment overload throws exactly when one fragment is longer
\* than 4294967295, whatever the sum; otherwise slot 0 views the 4-byte
\* header buffer, which holds the sum of the lengths modulo 2^32, and the
\* fragments follow in order in count more slots.
C20_FragmentsSumWraps ==
    (gen.op = "fragments" /\ gen.returned) =>
        /\ gen.error # "none" <=>
              \E i \in 1..Len(gen.args) :
                  SizeGreater(gen.args[i].size, [hi |-> 65535, lo |-> 65535])
        /\ gen.error = "none" =>
              /\ gen.out[1] = StaticString("headerBuf", 0, Size(4))
              /\ gen.headerBuf = BigEndianOf(Mod32(PayloadLength(gen.args)))
              /\ \A i \in 1..Len(gen.args) : gen.out[i + 1] = gen.args[i]
              /\ \A k \in Len(gen.args) + 2..Len(gen.out) : gen.out[k] = NoView

\* Two fragments whose lengths sum to more than 4294967295 were accepted.
C20_Witness ==
    /\ gen.op = "fragments" /\ gen.returned /\ gen.error = "none"
    /\ Len(gen.args) = 2
    /\ SizeGreater(PayloadLength(gen.args), [hi |-> 65535, lo |-> 65535])
    /\ PayloadLength(gen.args) # Mod32(PayloadLength(gen.args))

====
